---- MODULE Spec2Model ----
(***************************************************************************)
(* git-fabric/cve: the CVE queue (State layer), the triage policy          *)
(* (Decision layer) and the pipeline that joins them with the Action       *)
(* layer and the code host.                                                *)
(*                                                                         *)
(* A JS object is a TLA+ function from the names of its defined fields to  *)
(* their values: a field that is undefined is absent from the DOMAIN.  A   *)
(* null cvssScore is the empty sequence Null, a numeric one is <<n>>.     *)
(* Timestamps (ISO strings in the code, compared through getTime) are      *)
(* whole days on the clock `now`.                                          *)
(***************************************************************************)
EXTENDS Integers, Sequences, FiniteSets, TLC

VARIABLES
    file,       \* state/cve-queue.jsonl: the sequence of its lines
    now,        \* the clock, in days
    arg,        \* the argument of the last State operation
    ret,        \* what the last State operation returned
    wrote,      \* whether the last State operation called state.write
    inEntries,  \* triage: the entries it is given
    inPolicy,   \* triage: the policy it is given
    outPlans,   \* triage: the plans it returned
    tpc,        \* triage: "off", "call" (inputs chosen) or "done"
    writers,    \* two interleaved State operations: where each one is
    adapterCalls, \* the state.read / state.write calls they made, in order
    prs,        \* the pull requests on the code host, in order of creation
    exIn,       \* execute: the plans, the host's behaviour for each, dryRun
    exOut       \* execute: what it returned and did, NoCall before

queueVars == <<file, now, arg, ret, wrote>>

triageVars == <<inEntries, inPolicy, outPlans, tpc>>

raceVars == <<writers, adapterCalls>>

hostVars == <<prs>>

executeVars == <<exIn, exOut>>

vars == <<queueVars, triageVars, raceVars, hostVars, executeVars>>

-----------------------------------------------------------------------------
(* Bounds of the model *)

MaxTime == 1        \* the clock runs 0..MaxTime
MaxBatch == 2       \* longest enqueue / update batch
MaxEntries == 3     \* longest list of distinct findings given to triage
MaxPrs == 2         \* most pull requests the code host comes to hold
MaxPlans == 2       \* longest list of plans given to execute on its own
MaxPackages == 2    \* most packages one manifest declares

-----------------------------------------------------------------------------
(* Severity model: types.ts *)

SEVERITY_ORDER == <<"CRITICAL", "HIGH", "MEDIUM", "LOW", "NONE", "UNKNOWN">>

\* Array.prototype.indexOf: zero-based, -1 when absent
IndexOf(seq, x) ==
    IF \E i \in DOMAIN seq : seq[i] = x
    THEN (CHOOSE i \in DOMAIN seq : seq[i] = x /\ \A j \in 1..(i - 1) : seq[j] # x) - 1
    ELSE -1

\* a threshold that its own level does not meet
meetsThresholdStrictly(severity, threshold) ==
    IndexOf(SEVERITY_ORDER, severity) < IndexOf(SEVERITY_ORDER, threshold)

\* a scale on which the two sentinels rank alike
meetsThresholdSentinelsAlike(severity, threshold) ==
    LET Rank(x) == IF IndexOf(SEVERITY_ORDER, x) > 4 THEN 4 ELSE IndexOf(SEVERITY_ORDER, x)
    IN  Rank(severity) <= Rank(threshold)

meetsThreshold(severity, threshold) ==
    IndexOf(SEVERITY_ORDER, severity) <= IndexOf(SEVERITY_ORDER, threshold)

-----------------------------------------------------------------------------
(* Values *)

Null == <<>>
Num(n) == <<n>>

\* (x ?? d) on a field that may be null
ScoreOrZero(e) == IF e.cvssScore = Null THEN 0 ELSE e.cvssScore[1]

Has(o, f) == f \in DOMAIN o

OptionalFields == {"prNumber", "prUrl", "skipReason"}

-----------------------------------------------------------------------------
(* JSON lines.  A line of the file is <<"json", members>> when it is the  *)
(* JSON text of an object, members being its name/value pairs in the      *)
(* order they are written, and <<"text", s>> when it is anything else.    *)

\* the order in which detect and update give an entry its properties
PropertyOrder ==
    <<"id", "repo", "ecosystem", "affectedPackage", "patchedVersion", "severity",
      "cvssScore", "detectedAt", "status", "prNumber", "prUrl", "skipReason",
      "processedAt">>

\* a JSON text of the properties detect gives an entry, and no other
JsonStringifyAsDetected(e) ==
    LET names == SelectSeq(SubSeq(PropertyOrder, 1, 9), LAMBDA f : f \in DOMAIN e)
    IN  <<"json", [i \in DOMAIN names |-> [name |-> names[i], value |-> e[names[i]]]]>>

\* JSON.stringify of an object: one member for each property that is not
\* undefined, in property order
JsonStringify(e) ==
    LET names == SelectSeq(PropertyOrder, LAMBDA f : f \in DOMAIN e)
    IN  <<"json", [i \in DOMAIN names |-> [name |-> names[i], value |-> e[names[i]]]]>>

IsJson(line) == line[1] = "json"

\* the object of the first n members, a later member of a name replacing
\* an earlier one
RECURSIVE ParseMembers(_, _)
ParseMembers(members, n) ==
    IF n = 0 THEN <<>>
    ELSE (members[n].name :> members[n].value) @@ ParseMembers(members, n - 1)

\* JSON.parse of an object text
JsonParse(line) == ParseMembers(line[2], Len(line[2]))

\* line.trim() is empty
IsBlank(line) == line = <<"text", "">>

-----------------------------------------------------------------------------
(* The Map of parseQueue: a sequence of [k, v] pairs in insertion order,  *)
(* no key twice.                                                          *)

Key(id, repo) == id \o "::" \o repo

\* a key that also tells severities apart
EntryKeyGraded(e) == Key(e.id, e.repo) \o "::" \o e.severity

EntryKey(e) == Key(e.id, e.repo)

MapHas(m, k) == \E i \in DOMAIN m : m[i].k = k

MapGet(m, k) == m[CHOOSE i \in DOMAIN m : m[i].k = k].v

\* Map.set: an existing key keeps its place and takes the new value
MapSet(m, k, v) ==
    IF MapHas(m, k)
    THEN [i \in DOMAIN m |-> IF m[i].k = k THEN [k |-> k, v |-> v] ELSE m[i]]
    ELSE Append(m, [k |-> k, v |-> v])

MapDelete(m, k) == SelectSeq(m, LAMBDA p : p.k # k)

MapValues(m) == [i \in DOMAIN m |-> m[i].v]

MapKeys(m) == {m[i].k : i \in DOMAIN m}

RECURSIVE parseQueue(_)
parseQueue(raw) ==
    IF raw = <<>> THEN <<>>
    ELSE LET line == raw[Len(raw)]
             map == parseQueue(SubSeq(raw, 1, Len(raw) - 1))
         IN  IF IsBlank(line) \/ ~IsJson(line) THEN map
             ELSE MapSet(map, EntryKey(JsonParse(line)), JsonParse(line))

serialize(map) == [i \in DOMAIN map |-> JsonStringify(map[i].v)]

-----------------------------------------------------------------------------
(* State layer: state.js.  Each operator takes what state.read returned   *)
(* and gives the content it writes (or NoWrite) and the value it returns. *)

\* a merge in which the entry that comes last replaces the stored one
RECURSIVE enqueueLoopLastWins(_, _, _)
enqueueLoopLastWins(existing, entries, n) ==
    IF n = 0 THEN [map |-> existing, added |-> 0, duplicates |-> 0]
    ELSE LET prev == enqueueLoopLastWins(existing, entries, n - 1)
             entry == entries[n]
             key == EntryKey(entry)
         IN  [map |-> MapSet(prev.map, key, entry),
              added |-> IF MapHas(prev.map, key) THEN prev.added ELSE prev.added + 1,
              duplicates |-> IF MapHas(prev.map, key) THEN prev.duplicates + 1
                                                       ELSE prev.duplicates]

\* a merge that gives a stored entry the detection time of its duplicate
RECURSIVE enqueueLoopRefreshing(_, _, _)
enqueueLoopRefreshing(existing, entries, n) ==
    IF n = 0 THEN [map |-> existing, added |-> 0, duplicates |-> 0]
    ELSE LET prev == enqueueLoopRefreshing(existing, entries, n - 1)
             entry == entries[n]
             key == EntryKey(entry)
         IN  IF MapHas(prev.map, key)
             THEN [map |-> MapSet(prev.map, key,
                                  [MapGet(prev.map, key) EXCEPT
                                       !.detectedAt = entry.detectedAt]),
                   added |-> prev.added,
                   duplicates |-> prev.duplicates + 1]
             ELSE [map |-> MapSet(prev.map, key, entry),
                   added |-> prev.added + 1,
                   duplicates |-> prev.duplicates]

\* the loop of enqueue over entries[1..n]
RECURSIVE enqueueLoop(_, _, _)
enqueueLoop(existing, entries, n) ==
    IF n = 0 THEN [map |-> existing, added |-> 0, duplicates |-> 0]
    ELSE LET prev == enqueueLoop(existing, entries, n - 1)
             entry == entries[n]
             key == EntryKey(entry)
         IN  IF MapHas(prev.map, key)
             THEN [prev EXCEPT !.duplicates = @ + 1]
             ELSE [map |-> MapSet(prev.map, key, entry),
                   added |-> prev.added + 1,
                   duplicates |-> prev.duplicates]

enqueue(entries, raw) ==
    LET done == enqueueLoop(parseQueue(raw), entries, Len(entries))
    IN  [write |-> TRUE,
         content |-> serialize(done.map),
         ret |-> [op |-> "enqueue", added |-> done.added, duplicates |-> done.duplicates]]

\* an update that records the status and the time only
updatedStatusOnly(existing, u, processedAt) ==
    [f \in DOMAIN existing \cup {"status", "processedAt"} |->
        CASE f = "status" -> u.status
          [] f = "processedAt" -> processedAt
          [] OTHER -> existing[f]]

\* an update that does not stamp the entry
updatedUnstamped(existing, u, processedAt) ==
    LET keep == {f \in OptionalFields : Has(u, f) \/ Has(existing, f)}
    IN  [f \in DOMAIN existing \cup {"status"} \cup keep |->
            CASE f = "status" -> u.status
              [] f \in OptionalFields /\ Has(u, f) -> u[f]
              [] OTHER -> existing[f]]

\* the object update() stores for an existing entry and an update item u
updated(existing, u, processedAt) ==
    LET keep == {f \in OptionalFields : Has(u, f) \/ Has(existing, f)}
        dom == DOMAIN existing \cup {"status", "processedAt"} \cup keep
    IN  [f \in dom |->
            CASE f = "status" -> u.status
              [] f = "processedAt" -> processedAt
              [] f \in OptionalFields /\ Has(u, f) -> u[f]
              [] OTHER -> existing[f]]

\* an update that creates the entries it does not find
RECURSIVE updateLoopUpsert(_, _, _, _)
updateLoopUpsert(queue, updates, n, processedAt) ==
    IF n = 0 THEN [map |-> queue, updated |-> 0, notFound |-> 0]
    ELSE LET prev == updateLoopUpsert(queue, updates, n - 1, processedAt)
             u == updates[n]
             key == Key(u.id, u.repo)
         IN  IF ~MapHas(prev.map, key)
             THEN [map |-> MapSet(prev.map, key, u @@ [processedAt |-> processedAt]),
                   updated |-> prev.updated,
                   notFound |-> prev.notFound + 1]
             ELSE [map |-> MapSet(prev.map, key, updated(MapGet(prev.map, key), u, processedAt)),
                   updated |-> prev.updated + 1,
                   notFound |-> prev.notFound]

RECURSIVE updateLoop(_, _, _, _)
updateLoop(queue, updates, n, processedAt) ==
    IF n = 0 THEN [map |-> queue, updated |-> 0, notFound |-> 0]
    ELSE LET prev == updateLoop(queue, updates, n - 1, processedAt)
             u == updates[n]
             key == Key(u.id, u.repo)
         IN  IF ~MapHas(prev.map, key)
             THEN [prev EXCEPT !.notFound = @ + 1]
             ELSE [map |-> MapSet(prev.map, key, updated(MapGet(prev.map, key), u, processedAt)),
                   updated |-> prev.updated + 1,
                   notFound |-> prev.notFound]

update(updates, raw, clock) ==
    LET done == updateLoop(parseQueue(raw), updates, Len(updates), clock)
    IN  [write |-> TRUE,
         content |-> serialize(done.map),
         ret |-> [op |-> "update", updated |-> done.updated, notFound |-> done.notFound]]

\* a retention window always measured from detection
resolutionTimeDetected(entry) == entry.detectedAt

\* entry.processedAt ?? entry.detectedAt
resolutionTime(entry) ==
    IF Has(entry, "processedAt") THEN entry.processedAt ELSE entry.detectedAt

\* a compaction that looks at age alone
compactRemovesByAge(entry, cutoff) == resolutionTime(entry) < cutoff

\* whether compact deletes the entry, given cutoff = Date.now() - retentionMs
compactRemoves(entry, cutoff) ==
    /\ entry.status # "pending"
    /\ resolutionTime(entry) < cutoff

\* a compaction that writes the queue back whatever it removed
compactAlwaysWrites(raw, retentionDays, clock) ==
    LET queue == parseQueue(raw)
        cutoff == clock - retentionDays
        gone == {i \in DOMAIN queue : compactRemoves(queue[i].v, cutoff)}
        kept == SelectSeq(queue, LAMBDA p : ~compactRemoves(p.v, cutoff))
        statuses == {queue[i].v.status : i \in gone}
    IN  [write |-> TRUE,
         content |-> serialize(kept),
         ret |-> [op |-> "compact", before |-> Len(queue), after |-> Len(kept),
                  removed |-> Len(queue) - Len(kept),
                  byStatus |-> [st \in statuses |->
                                   Cardinality({i \in gone : queue[i].v.status = st})]]]

compact(raw, retentionDays, clock) ==
    IF raw = <<>>
    THEN [write |-> FALSE, content |-> raw,
          ret |-> [op |-> "compact", before |-> 0, after |-> 0, removed |-> 0,
                   byStatus |-> [s \in {} |-> 0]]]
    ELSE LET queue == parseQueue(raw)
             before == Len(queue)
             cutoff == clock - retentionDays
             gone == {i \in DOMAIN queue : compactRemoves(queue[i].v, cutoff)}
             kept == SelectSeq(queue, LAMBDA p : ~compactRemoves(p.v, cutoff))
             statuses == {queue[i].v.status : i \in gone}
             removedByStatus ==
                 [s \in statuses |-> Cardinality({i \in gone : queue[i].v.status = s})]
             removed == before - Len(kept)
         IN  [write |-> removed > 0,
              content |-> IF removed > 0 THEN serialize(kept) ELSE raw,
              ret |-> [op |-> "compact", before |-> before, after |-> Len(kept),
                       removed |-> removed, byStatus |-> removedByStatus]]

-----------------------------------------------------------------------------
(* Decision layer: decision.ts *)

DEFAULT_POLICY ==
    [autoPrThreshold |-> "HIGH", draftThreshold |-> "HIGH",
     maxPrsPerRun |-> 5, requirePatchedVersion |-> TRUE]

\* the comparator of the sort: negative when a goes first
compareEntries(a, b) ==
    LET bySeverity == IndexOf(SEVERITY_ORDER, a.severity)
                          - IndexOf(SEVERITY_ORDER, b.severity)
    IN  IF bySeverity # 0 THEN bySeverity ELSE ScoreOrZero(b) - ScoreOrZero(a)

\* Array.prototype.sort is stable: e goes behind everything it does not beat
InsertSorted(sorted, e) ==
    LET before == {i \in DOMAIN sorted : compareEntries(sorted[i], e) <= 0}
        k == IF \E i \in DOMAIN sorted : i \notin before
             THEN (CHOOSE i \in DOMAIN sorted :
                      i \notin before /\ \A j \in 1..(i - 1) : j \in before) - 1
             ELSE Len(sorted)
    IN  SubSeq(sorted, 1, k) \o <<e>> \o SubSeq(sorted, k + 1, Len(sorted))

\* a triage that takes the entries in the order of the queue file
SortEntriesAsStored(list) == list

RECURSIVE SortEntries(_)
SortEntries(list) ==
    IF list = <<>> THEN <<>>
    ELSE InsertSorted(SortEntries(SubSeq(list, 1, Len(list) - 1)), list[Len(list)])

capReason(policy) == "PR cap reached (" \o ToString(policy.maxPrsPerRun) \o " per run)"

noPatchReason == "No patched version available yet"

thresholdReason(entry, policy) ==
    "Severity " \o entry.severity \o " below auto-PR threshold " \o policy.autoPrThreshold

\* !entry.patchedVersion || entry.patchedVersion === "unknown"
noPatchedVersion(entry) ==
    \/ ~Has(entry, "patchedVersion")
    \/ entry.patchedVersion = ""
    \/ entry.patchedVersion = "unknown"

\* a cap that lets one more through
capReachedLate(prCount, entry, policy) ==
    /\ prCount > policy.maxPrsPerRun
    /\ meetsThreshold(entry.severity, policy.autoPrThreshold)

capReached(prCount, entry, policy) ==
    /\ prCount >= policy.maxPrsPerRun
    /\ meetsThreshold(entry.severity, policy.autoPrThreshold)

\* a policy that looks for the patch before it looks at the cap
planForPatchFirst(entry, prCount, policy) ==
    IF policy.requirePatchedVersion /\ noPatchedVersion(entry)
    THEN [entry |-> entry, action |-> "skip", reason |-> noPatchReason]
    ELSE IF capReached(prCount, entry, policy)
    THEN [entry |-> entry, action |-> "skip", reason |-> capReason(policy)]
    ELSE IF ~meetsThreshold(entry.severity, policy.autoPrThreshold)
    THEN [entry |-> entry, action |-> "skip", reason |-> thresholdReason(entry, policy)]
    ELSE IF entry.severity = "CRITICAL"
    THEN [entry |-> entry, action |-> "open_pr",
          reason |-> "CRITICAL - immediate confirmed PR"]
    ELSE [entry |-> entry, action |-> "open_draft",
          reason |-> entry.severity \o " - draft PR for review"]

\* a policy whose draftThreshold decides between the draft and the
\* confirmed pull request
planForByDraftThreshold(entry, prCount, policy) ==
    IF capReached(prCount, entry, policy)
    THEN [entry |-> entry, action |-> "skip", reason |-> capReason(policy)]
    ELSE IF policy.requirePatchedVersion /\ noPatchedVersion(entry)
    THEN [entry |-> entry, action |-> "skip", reason |-> noPatchReason]
    ELSE IF ~meetsThreshold(entry.severity, policy.autoPrThreshold)
    THEN [entry |-> entry, action |-> "skip", reason |-> thresholdReason(entry, policy)]
    ELSE IF entry.severity = "CRITICAL"
              \/ ~meetsThreshold(entry.severity, policy.draftThreshold)
    THEN [entry |-> entry, action |-> "open_pr",
          reason |-> "CRITICAL - immediate confirmed PR"]
    ELSE [entry |-> entry, action |-> "open_draft",
          reason |-> entry.severity \o " - draft PR for review"]

\* the body of the for loop: the plan pushed for one entry
planFor(entry, prCount, policy) ==
    IF capReached(prCount, entry, policy)
    THEN [entry |-> entry, action |-> "skip", reason |-> capReason(policy)]
    ELSE IF policy.requirePatchedVersion /\ noPatchedVersion(entry)
    THEN [entry |-> entry, action |-> "skip", reason |-> noPatchReason]
    ELSE IF ~meetsThreshold(entry.severity, policy.autoPrThreshold)
    THEN [entry |-> entry, action |-> "skip", reason |-> thresholdReason(entry, policy)]
    ELSE IF entry.severity = "CRITICAL"
    THEN [entry |-> entry, action |-> "open_pr",
          reason |-> "CRITICAL - immediate confirmed PR"]
    ELSE [entry |-> entry, action |-> "open_draft",
          reason |-> entry.severity \o " - draft PR for review"]

\* a count that leaves drafts out
countAfterConfirmedOnly(prCount, plan) ==
    IF plan.action = "open_pr" THEN prCount + 1 ELSE prCount

\* prCount++ in both acting branches
countAfter(prCount, plan) ==
    IF plan.action \in {"open_pr", "open_draft"} THEN prCount + 1 ELSE prCount

\* the for loop over sorted[1..n]
RECURSIVE triageLoop(_, _, _)
triageLoop(sorted, n, policy) ==
    IF n = 0 THEN [plans |-> <<>>, prCount |-> 0]
    ELSE LET prev == triageLoop(sorted, n - 1, policy)
             plan == planFor(sorted[n], prev.prCount, policy)
         IN  [plans |-> Append(prev.plans, plan),
              prCount |-> countAfter(prev.prCount, plan)]

\* a triage that plans the entries of every status
triageEveryStatus(list, policy) ==
    LET sorted == SortEntries(list)
    IN  triageLoop(sorted, Len(sorted), policy).plans

triage(list, policy) ==
    LET sorted == SortEntries(SelectSeq(list, LAMBDA e : e.status = "pending"))
    IN  triageLoop(sorted, Len(sorted), policy).plans

-----------------------------------------------------------------------------
(* Inputs of the State-layer specification *)

\* (severity, cvssScore, patchedVersion) of the advisories a scan may see
Grades == {<<"CRITICAL", Num(9), "2.0.0">>, <<"LOW", Null, "unknown">>}

\* the queue entry detect builds for an advisory (detection.js)
Finding(id, repo, grade, clock) ==
    [id |-> id, repo |-> repo, ecosystem |-> "npm", affectedPackage |-> "pkg",
     patchedVersion |-> grade[3], severity |-> grade[1], cvssScore |-> grade[2],
     detectedAt |-> clock, status |-> "pending"]

\* an entry a caller of enqueue hands over already resolved (no processedAt)
Imported(id, repo, clock) ==
    [Finding(id, repo, <<"HIGH", Num(7), "2.0.0">>, clock) EXCEPT !.status = "skipped"]

EntryPool(clock) ==
    {Finding("CVE-1", "a/b", g, clock) : g \in Grades}
        \cup {Imported("GHSA-2", "a/b", clock)}

SeqsUpTo(S, n) == UNION {[1..k -> S] : k \in 0..n}

UpdateShapes ==
    {[status |-> "pr_opened", prNumber |-> 7, prUrl |-> "https://pr/7"],
     [status |-> "error", skipReason |-> "boom"],
     [status |-> "pending"]}

UpdateItems ==
    {[id |-> "CVE-1", repo |-> "a/b"] @@ shape : shape \in UpdateShapes}
        \cup {[id |-> "GHSA-2", repo |-> "a/b", status |-> "pr_opened",
               prNumber |-> 8, prUrl |-> "https://pr/8"],
              [id |-> "CVE-1", repo |-> "c/d", status |-> "skipped"]}

DEFAULT_RETENTION == 30

Retentions == {-1, 0, 1, DEFAULT_RETENTION}

-----------------------------------------------------------------------------
(* State layer: list and pending (state.js) *)

Min(a, b) == IF a <= b THEN a ELSE b

\* a list whose total counts the entries it returns
listTotalOfPage(raw, opts) ==
    IF raw = <<>> THEN [total |-> 0, entries |-> <<>>]
    ELSE LET status == IF Has(opts, "status") THEN opts.status ELSE "pending"
             thresholdIdx ==
                 IndexOf(SEVERITY_ORDER,
                         IF Has(opts, "severityMin") THEN opts.severityMin ELSE "LOW")
             limit == IF Has(opts, "limit") THEN opts.limit ELSE 50
             Keep(e) ==
                 /\ status = "all" \/ e.status = status
                 /\ Has(opts, "repo") => e.repo = opts.repo
                 /\ IndexOf(SEVERITY_ORDER, e.severity) <= thresholdIdx
             entries == SortEntries(SelectSeq(MapValues(parseQueue(raw)), Keep))
         IN  [total |-> Min(limit, Len(entries)),
              entries |-> SubSeq(entries, 1, Min(limit, Len(entries)))]

\* opts: each of status, severityMin, repo and limit is optional
list(raw, opts) ==
    IF raw = <<>> THEN [total |-> 0, entries |-> <<>>]
    ELSE LET status == IF Has(opts, "status") THEN opts.status ELSE "pending"
             thresholdIdx ==
                 IndexOf(SEVERITY_ORDER,
                         IF Has(opts, "severityMin") THEN opts.severityMin ELSE "LOW")
             limit == IF Has(opts, "limit") THEN opts.limit ELSE 50
             Keep(e) ==
                 /\ status = "all" \/ e.status = status
                 /\ Has(opts, "repo") => e.repo = opts.repo
                 /\ IndexOf(SEVERITY_ORDER, e.severity) <= thresholdIdx
             entries == SortEntries(SelectSeq(MapValues(parseQueue(raw)), Keep))
         IN  [total |-> Len(entries),
              entries |-> SubSeq(entries, 1, Min(limit, Len(entries)))]

pending(raw) == list(raw, [status |-> "pending", limit |-> 1000]).entries

-----------------------------------------------------------------------------
(* State layer: stats (state.js) *)

Statuses == {"pending", "pr_opened", "skipped", "error"}

\* Array.prototype.sort by detectedAt, oldest first, stable
InsertByAge(sorted, e) ==
    LET before == {i \in DOMAIN sorted : sorted[i].detectedAt - e.detectedAt <= 0}
        k == IF \E i \in DOMAIN sorted : i \notin before
             THEN (CHOOSE i \in DOMAIN sorted :
                      i \notin before /\ \A j \in 1..(i - 1) : j \in before) - 1
             ELSE Len(sorted)
    IN  SubSeq(sorted, 1, k) \o <<e>> \o SubSeq(sorted, k + 1, Len(sorted))

RECURSIVE SortByAge(_)
SortByAge(entries) ==
    IF entries = <<>> THEN <<>>
    ELSE InsertByAge(SortByAge(SubSeq(entries, 1, Len(entries) - 1)), entries[Len(entries)])

\* the keys of byRepo in the order reduce first meets them
RECURSIVE ReposOf(_)
ReposOf(entries) ==
    IF entries = <<>> THEN <<>>
    ELSE LET front == ReposOf(SubSeq(entries, 1, Len(entries) - 1))
             repo == entries[Len(entries)].repo
         IN  IF \E i \in DOMAIN front : front[i] = repo THEN front ELSE Append(front, repo)

\* Array.prototype.sort by count, largest first, stable
InsertByCount(sorted, r) ==
    LET before == {i \in DOMAIN sorted : r.pending - sorted[i].pending <= 0}
        k == IF \E i \in DOMAIN sorted : i \notin before
             THEN (CHOOSE i \in DOMAIN sorted :
                      i \notin before /\ \A j \in 1..(i - 1) : j \in before) - 1
             ELSE Len(sorted)
    IN  SubSeq(sorted, 1, k) \o <<r>> \o SubSeq(sorted, k + 1, Len(sorted))

RECURSIVE SortByCount(_)
SortByCount(repos) ==
    IF repos = <<>> THEN <<>>
    ELSE InsertByCount(SortByCount(SubSeq(repos, 1, Len(repos) - 1)), repos[Len(repos)])

CountOf(entries, Test(_)) == Cardinality({i \in DOMAIN entries : Test(entries[i])})

stats(raw) ==
    IF raw = <<>>
    THEN [total |-> 0, byStatus |-> <<>>, pendingBySeverity |-> <<>>,
          oldestPending |-> Null, topRepos |-> <<>>]
    ELSE LET entries == MapValues(parseQueue(raw))
             pendingEntries == SortByAge(SelectSeq(entries, LAMBDA e : e.status = "pending"))
             repos == ReposOf(pendingEntries)
             byRepo == [i \in DOMAIN repos |->
                           [repo |-> repos[i],
                            pending |-> CountOf(pendingEntries, LAMBDA e : e.repo = repos[i])]]
             topRepos == SortByCount(byRepo)
         IN  [total |-> Len(entries),
              byStatus |->
                  [st \in {entries[i].status : i \in DOMAIN entries} |->
                      CountOf(entries, LAMBDA e : e.status = st)],
              pendingBySeverity |->
                  [sev \in {SEVERITY_ORDER[i] : i \in DOMAIN SEVERITY_ORDER} |->
                      CountOf(pendingEntries, LAMBDA e : e.severity = sev)],
              oldestPending |->
                  IF pendingEntries = <<>> THEN Null
                  ELSE <<[id |-> pendingEntries[1].id, repo |-> pendingEntries[1].repo,
                          severity |-> pendingEntries[1].severity,
                          detectedAt |-> pendingEntries[1].detectedAt]>>,
              topRepos |-> SubSeq(topRepos, 1, Min(10, Len(topRepos)))]

-----------------------------------------------------------------------------
(* Detection layer (detection.js) *)

\* String.prototype.toUpperCase, on the texts a severity is given as
ToUpperCase(s) ==
    CASE s \in {"CRITICAL", "critical", "Critical"} -> "CRITICAL"
      [] s \in {"HIGH", "high"} -> "HIGH"
      [] s \in {"MEDIUM", "medium"} -> "MEDIUM"
      [] s \in {"MODERATE", "moderate"} -> "MODERATE"
      [] s \in {"LOW", "low"} -> "LOW"
      [] s \in {"NONE", "none"} -> "NONE"
      [] s \in {"UNKNOWN", "unknown"} -> "UNKNOWN"
      [] s = " high" -> " HIGH"
      [] s = "" -> ""

\* a normalizeSeverity that reads the advisory database's MODERATE as MEDIUM
normalizeSeverityModerate(s) ==
    LET upper == IF s = Null THEN Null ELSE <<ToUpperCase(s[1])>>
    IN  IF upper # Null /\ upper[1] \in {"CRITICAL", "HIGH", "MEDIUM", "LOW", "NONE"}
        THEN upper[1]
        ELSE IF upper = <<"MODERATE">> THEN "MEDIUM" ELSE "UNKNOWN"

\* s is Null when the caller has no severity to give, <<text>> otherwise;
\* s?.toUpperCase() is undefined (Null) for a missing s
normalizeSeverity(s) ==
    LET upper == IF s = Null THEN Null ELSE <<ToUpperCase(s[1])>>
    IN  IF upper # Null /\ upper[1] \in {"CRITICAL", "HIGH", "MEDIUM", "LOW", "NONE"}
        THEN upper[1]
        ELSE "UNKNOWN"

\* a ?? b for a value a that is Null or <<v>>
OrElse(a, b) == IF a = Null THEN b ELSE a[1]

\* what fetch and the advisory database do with the query for one package:
\* answer with nodes, answer with a status that is not ok, or fail to answer
QueryOk(nodes) == [outcome |-> "ok", nodes |-> nodes]

QueryNotOk == [outcome |-> "not ok"]

QueryRejects == [outcome |-> "rejects"]

FetchError == "fetch failed"

queryGhsa(answer) ==
    CASE answer.outcome = "ok" -> [threw |-> FALSE, advisories |-> answer.nodes]
      [] answer.outcome = "not ok" -> [threw |-> FALSE, advisories |-> <<>>]
      [] answer.outcome = "rejects" -> [threw |-> TRUE, advisories |-> <<>>]

\* the queries of the manifests that were read, in order; a manifest is Null
\* when getFileContent returned null (no such file, or the read failed) and
\* otherwise <<answers>>, one answer for each package it declares
RECURSIVE QueriesOf(_)
QueriesOf(manifests) ==
    IF manifests = <<>> THEN <<>>
    ELSE (IF Head(manifests) = Null THEN <<>> ELSE Head(manifests)[1])
             \o QueriesOf(Tail(manifests))

RECURSIVE AnswersOf(_, _)
AnswersOf(repoFull, queries) ==
    IF queries = <<>> THEN <<>>
    ELSE LET answer == queryGhsa(Head(queries))
         IN  (IF answer.threw THEN <<[repo |-> repoFull, threw |-> TRUE, adv |-> Null]>>
              ELSE [i \in DOMAIN answer.advisories |->
                       [repo |-> repoFull, threw |-> FALSE, adv |-> answer.advisories[i]]])
                 \o AnswersOf(repoFull, Tail(queries))

\* the advisories of the scanned repos in the order the loops reach them,
\* with a mark where a query threw
RECURSIVE AdvisoriesOf(_, _)
AdvisoriesOf(repos, feed) ==
    IF repos = <<>> THEN <<>>
    ELSE AnswersOf(Head(repos), QueriesOf(feed[Head(repos)]))
             \o AdvisoriesOf(Tail(repos), feed)

\* a loop that pushes every advisory that passes the threshold
RECURSIVE detectLoopNoSeen(_, _, _, _)
detectLoopNoSeen(items, n, thresholdIdx, clock) ==
    IF n = 0 THEN [findings |-> <<>>, seen |-> {}]
    ELSE LET prev == detectLoopNoSeen(items, n - 1, thresholdIdx, clock)
             adv == items[n].adv
             severity == normalizeSeverity(<<adv.severity>>)
             id == OrElse(adv.cveId, adv.ghsaId)
         IN  IF IndexOf(SEVERITY_ORDER, severity) > thresholdIdx THEN prev
             ELSE [findings |->
                       Append(prev.findings,
                              Finding(id, items[n].repo,
                                      <<severity, adv.cvssScore,
                                        OrElse(adv.firstPatchedVersion, "unknown")>>,
                                      clock)),
                   seen |-> prev.seen]

RECURSIVE detectLoop(_, _, _, _)
detectLoop(items, n, thresholdIdx, clock) ==
    IF n = 0 THEN [findings |-> <<>>, seen |-> {}]
    ELSE LET prev == detectLoop(items, n - 1, thresholdIdx, clock)
             adv == items[n].adv
             repoFull == items[n].repo
             severity == normalizeSeverity(<<adv.severity>>)
             id == OrElse(adv.cveId, adv.ghsaId)
             dedupeKey == Key(id, repoFull)
         IN  IF IndexOf(SEVERITY_ORDER, severity) > thresholdIdx THEN prev
             ELSE IF dedupeKey \in prev.seen THEN prev
             ELSE [findings |->
                       Append(prev.findings,
                              Finding(id, repoFull,
                                      <<severity, adv.cvssScore,
                                        OrElse(adv.firstPatchedVersion, "unknown")>>,
                                      clock)),
                   seen |-> prev.seen \cup {dedupeKey}]

\* feed[repo]: the manifests of the repo as getFileContent returns them and,
\* for each, what the queries for its packages meet.  Nothing in detect
\* catches: a query that throws ends detect, which throws to its caller.
detect(repos, severityThreshold, feed, clock) ==
    LET items == AdvisoriesOf(repos, feed)
        allFindings ==
            detectLoop(items, Len(items),
                       IndexOf(SEVERITY_ORDER, severityThreshold), clock).findings
    IN  IF \E i \in DOMAIN items : items[i].threw
        THEN [threw |-> FetchError]
        ELSE [reposScanned |-> Len(repos),
              findings |-> allFindings,
              bySeverity |->
                  [sev \in {SEVERITY_ORDER[i] : i \in DOMAIN SEVERITY_ORDER} |->
                      Cardinality({i \in DOMAIN allFindings : allFindings[i].severity = sev})]]

-----------------------------------------------------------------------------
(* Action layer (action.ts) and the code host behind the GitHubAdapter *)

\* String.prototype.toLowerCase, on the ids of the advisories
ToLowerCase(s) ==
    CASE s = "CVE-1" -> "cve-1"
      [] s = "GHSA-2" -> "ghsa-2"
      [] s = "CVE-3" -> "cve-3"
      [] s = "GHSA-4" -> "ghsa-4"

\* a branch named after the id as it is written
branchOfIdAsWritten(entry) == "security/" \o entry.id

branchOf(entry) == "security/" \o ToLowerCase(entry.id)

ECOSYSTEM_MANIFEST ==
    [npm |-> "package.json", pip |-> "requirements.txt", go |-> "go.mod",
     cargo |-> "Cargo.toml", maven |-> "pom.xml", composer |-> "composer.json"]

\* The content of a manifest, as far as the updaters look at it:
\*   valid      it parses as JSON
\*   canonical  it is the text JSON.stringify(json, null, 2) + "\n" gives
\*   spec       the version specifier of the affected package, Null when
\*              the package is not listed
Manifest(valid, canonical, spec) ==
    [valid |-> valid, canonical |-> canonical, spec |-> spec]

\* the specifiers the pattern ^pkg\s*[>=<!]=? finds
PipSpecs == {"==1.0.0", ">=2.0.0"}

\* updateNpmManifest, for a content that parses
updateNpmManifest(content, version) ==
    Manifest(TRUE, TRUE,
             IF content.spec = Null THEN Null ELSE <<"^" \o version>>)

updatePipManifest(content, version) ==
    IF content.spec # Null /\ content.spec[1] \in PipSpecs
    THEN [content EXCEPT !.spec = <<">=" \o version>>]
    ELSE content

\* Null for the ecosystems without an updater
updateManifest(content, ecosystem, version) ==
    CASE ecosystem = "npm" -> <<updateNpmManifest(content, version)>>
      [] ecosystem = "pip" -> <<updatePipManifest(content, version)>>
      [] OTHER -> Null

\* err.message of what a failed call of the adapter throws
HostError(call) == call \o " failed"

\* err.message of JSON.parse on a manifest that does not parse
JsonError == "Unexpected token in JSON"

\* What the code host does with the calls made for one plan:
\*   throws         the call it fails ("none": it serves them all;
\*                  "addLabels": the pull request is created and the
\*                  adapter's createPullRequest throws afterwards)
\*   defaultBranch  what getDefaultBranch returns
\*   manifest       what getFileContent returns, Null or <<content>>
Host(throws, defaultBranch, manifest) ==
    [throws |-> throws, defaultBranch |-> defaultBranch, manifest |-> manifest]

prUrlOf(repo, number) == "https://github.com/" \o repo \o "/pull/" \o ToString(number)

\* one turn of the loop of execute: the result pushed, the pull requests
\* the host has gained and the adapter calls made; number is the one the
\* host gives its next pull request
executeOne(plan, host, dryRun, number) ==
    LET e == plan.entry
        head == [cveId |-> e.id, repo |-> e.repo]
        branch == branchOf(e)
        base == host.defaultBranch
        isDraft == plan.action = "open_draft"
        reads == e.ecosystem \in DOMAIN ECOSYSTEM_MANIFEST /\ e.patchedVersion # "unknown"
        hasContent == reads /\ host.manifest # Null
        parseThrows == hasContent /\ e.ecosystem = "npm" /\ ~host.manifest[1].valid
        updatedTo == IF hasContent /\ ~parseThrows
                     THEN updateManifest(host.manifest[1], e.ecosystem, e.patchedVersion)
                     ELSE Null
        staged == updatedTo # Null /\ updatedTo # host.manifest
        c1 == <<[call |-> "getDefaultBranch", repo |-> e.repo]>>
        c2 == Append(c1, [call |-> "createBranch", repo |-> e.repo,
                          branch |-> branch, fromBranch |-> base])
        c3 == IF reads
              THEN Append(c2, [call |-> "getFileContent", repo |-> e.repo,
                               path |-> ECOSYSTEM_MANIFEST[e.ecosystem]])
              ELSE c2
        c4 == IF staged
              THEN Append(c3, [call |-> "commitFiles", repo |-> e.repo,
                               branch |-> branch, content |-> updatedTo[1]])
              ELSE c3
        c5 == Append(c4, [call |-> "createPullRequest", repo |-> e.repo,
                          head |-> branch, base |-> base, draft |-> isDraft])
        pr == [repo |-> e.repo, head |-> branch, base |-> base,
               draft |-> isDraft, number |-> number]
        Caught(message, calls, gained) ==
            [result |-> head @@ [action |-> "error", reason |-> message],
             prs |-> gained, calls |-> calls]
    IN  IF plan.action = "skip"
        THEN [result |-> head @@ [action |-> "skipped", reason |-> plan.reason],
              prs |-> <<>>, calls |-> <<>>]
        ELSE IF dryRun
        THEN [result |-> head @@
                  [action |-> "pr_opened",
                   reason |-> "[DRY RUN] Would open "
                                 \o (IF plan.action = "open_draft" THEN "draft " ELSE "")
                                 \o "PR"],
              prs |-> <<>>, calls |-> <<>>]
        ELSE IF host.throws = "getDefaultBranch"
        THEN Caught(HostError("getDefaultBranch"), c1, <<>>)
        ELSE IF host.throws = "createBranch"
        THEN Caught(HostError("createBranch"), c2, <<>>)
        ELSE IF reads /\ host.throws = "getFileContent"
        THEN Caught(HostError("getFileContent"), c3, <<>>)
        ELSE IF parseThrows
        THEN Caught(JsonError, c3, <<>>)
        ELSE IF staged /\ host.throws = "commitFiles"
        THEN Caught(HostError("commitFiles"), c4, <<>>)
        ELSE IF host.throws = "createPullRequest"
        THEN Caught(HostError("createPullRequest"), c5, <<>>)
        ELSE IF host.throws = "addLabels"
        THEN Caught(HostError("addLabels"), c5, <<pr>>)
        ELSE [result |-> head @@
                  [action |-> "pr_opened", prNumber |-> number,
                   prUrl |-> prUrlOf(e.repo, number)],
              prs |-> <<pr>>, calls |-> c5]

\* a loop that the first failure ends
RECURSIVE executeLoopAborting(_, _, _, _, _)
executeLoopAborting(plans, n, hosts, dryRun, hosted) ==
    IF n = 0 THEN [results |-> <<>>, prs |-> <<>>, calls |-> <<>>]
    ELSE LET prev == executeLoopAborting(plans, n - 1, hosts, dryRun, hosted)
             one == executeOne(plans[n], hosts[n], dryRun,
                               hosted + Len(prev.prs) + 1)
         IN  IF \E i \in DOMAIN prev.results : prev.results[i].action = "error"
             THEN prev
             ELSE [results |-> Append(prev.results, one.result),
                   prs |-> prev.prs \o one.prs,
                   calls |-> prev.calls \o one.calls]

\* the loop of execute over plans[1..n]; hosted: pull requests on the host
\* when execute is called
RECURSIVE executeLoop(_, _, _, _, _)
executeLoop(plans, n, hosts, dryRun, hosted) ==
    IF n = 0 THEN [results |-> <<>>, prs |-> <<>>, calls |-> <<>>]
    ELSE LET prev == executeLoop(plans, n - 1, hosts, dryRun, hosted)
             one == executeOne(plans[n], hosts[n], dryRun,
                               hosted + Len(prev.prs) + 1)
         IN  [results |-> Append(prev.results, one.result),
              prs |-> prev.prs \o one.prs,
              calls |-> prev.calls \o one.calls]

\* an execute that asks for the default branch of every plan's repo first
executeProbing(plans, hosts, dryRun, hosted) ==
    [executeLoop(plans, Len(plans), hosts, dryRun, hosted) EXCEPT
        !.calls = [i \in DOMAIN plans |->
                      [call |-> "getDefaultBranch", repo |-> plans[i].entry.repo]] \o @]

execute(plans, hosts, dryRun, hosted) ==
    executeLoop(plans, Len(plans), hosts, dryRun, hosted)

-----------------------------------------------------------------------------
(* The tool handlers (index.ts and the MCP server) *)

\* results.map((r) => ({ id, repo, status, prNumber, prUrl, skipReason }))
updateOf(r) ==
    LET carried == {f \in {"prNumber", "prUrl"} : Has(r, f)}
                       \cup (IF Has(r, "reason") THEN {"skipReason"} ELSE {})
    IN  [f \in {"id", "repo", "status"} \cup carried |->
            CASE f = "id" -> r.cveId
              [] f = "repo" -> r.repo
              [] f = "status" ->
                     IF r.action = "pr_opened" THEN "pr_opened"
                     ELSE IF r.action = "error" THEN "error" ELSE "skipped"
              [] f = "skipReason" -> r.reason
              [] OTHER -> r[f]]

\* plans.find((p) => p.entry.id === r.cveId)?.action
firstPlanAction(plans, cveId) ==
    IF \E i \in DOMAIN plans : plans[i].entry.id = cveId
    THEN plans[CHOOSE i \in DOMAIN plans :
                   /\ plans[i].entry.id = cveId
                   /\ \A j \in 1..(i - 1) : plans[j].entry.id # cveId].action
    ELSE "undefined"

\* a handler that records only what was skipped
updatesOfSkipped(results, plans, handler) ==
    LET Kept(r) == r.action = "skipped"
        kept == SelectSeq(results, Kept)
    IN  [i \in DOMAIN kept |-> updateOf(kept[i])]

\* the updates cve_triage hands to update: the app maps every result, the
\* MCP server filters them first
updatesOf(results, plans, handler) ==
    LET Kept(r) ==
            \/ handler = "app"
            \/ r.action # "skipped"
            \/ firstPlanAction(plans, r.cveId) = "skip"
        kept == SelectSeq(results, Kept)
    IN  [i \in DOMAIN kept |-> updateOf(kept[i])]

-----------------------------------------------------------------------------
(* The State-layer operations, one call at a time.  A call runs whole   *)
(* (state.read, the computation, state.write when it writes) and leaves   *)
(* its argument and result in arg and ret until the caller has taken them.*)

NoCall == [op |-> "none"]

\* no queue file yet, nothing called
QueueInit ==
    /\ file = <<>>
    /\ now = 0
    /\ arg = <<>>
    /\ ret = NoCall
    /\ wrote = FALSE

\* triage is not part of the run
TriageOff ==
    /\ inEntries = <<>>
    /\ inPolicy = DEFAULT_POLICY
    /\ outPlans = <<>>
    /\ tpc = "off"

Writers == {1, 2}

\* no interleaved operations in the run
RaceOff ==
    /\ writers = [w \in Writers |-> [pc |-> "idle"]]
    /\ adapterCalls = <<>>

\* the code host holds no pull request of this program yet
HostInit == prs = <<>>

\* execute is not called on its own
ExecuteOff == exIn = <<>> /\ exOut = NoCall

Init == QueueInit /\ TriageOff /\ RaceOff /\ HostInit /\ ExecuteOff

Apply(call, input) ==
    /\ ret = NoCall
    /\ arg' = input
    /\ file' = call.content
    /\ ret' = call.ret
    /\ wrote' = call.write
    /\ UNCHANGED <<now, triageVars, raceVars, hostVars, executeVars>>

Enqueue ==
    \E batch \in SeqsUpTo(EntryPool(now), MaxBatch) :
        Apply(enqueue(batch, file), batch)

Update ==
    \E updates \in SeqsUpTo(UpdateItems, MaxBatch) :
        Apply(update(updates, file, now), updates)

Compact ==
    \E retentionDays \in Retentions :
        Apply(compact(file, retentionDays, now), retentionDays)

\* the calls that only read: list, pending and stats call state.read and
\* never state.write
ReadOpts == {<<>>, [status |-> "all", limit |-> 1]}

Read(result, input) ==
    Apply([content |-> file, write |-> FALSE, ret |-> result], input)

QueueList ==
    \E opts \in ReadOpts : Read([op |-> "list"] @@ list(file, opts), opts)

QueuePending == Read([op |-> "pending", entries |-> pending(file)], <<>>)

QueueStats == Read([op |-> "stats"] @@ stats(file), <<>>)

\* the caller has taken the result
Return ==
    /\ ret # NoCall
    /\ arg' = <<>>
    /\ ret' = NoCall
    /\ wrote' = FALSE
    /\ UNCHANGED <<file, now, triageVars, raceVars, hostVars, executeVars>>

Tick ==
    /\ ret = NoCall
    /\ now < MaxTime
    /\ now' = now + 1
    /\ UNCHANGED <<file, arg, ret, wrote, triageVars, raceVars, hostVars, executeVars>>

Next ==
    \/ Enqueue \/ Update \/ Compact
    \/ QueueList \/ QueuePending \/ QueueStats
    \/ Return \/ Tick

Spec == Init /\ [][Next]_vars

-----------------------------------------------------------------------------
(* triage as a function: the inputs are drawn, then triage is applied *)

\* (severity, cvssScore, patchedVersion, status) of the entries triage may be
\* given; patchedVersion "" stands for a missing one as well
TriageKinds ==
    {<<"CRITICAL", Num(9), "2.0.0", "pending">>,
     <<"CRITICAL", Null, "2.0.0", "pending">>,
     <<"CRITICAL", Num(9), "unknown", "pending">>,
     <<"HIGH", Num(7), "2.0.0", "pending">>,
     <<"HIGH", Num(9), "", "pending">>,
     <<"MEDIUM", Num(5), "2.0.0", "pending">>,
     <<"LOW", Null, "unknown", "pending">>,
     <<"NONE", Null, "2.0.0", "pending">>,
     <<"UNKNOWN", Num(9), "2.0.0", "pending">>,
     <<"HIGH", Num(9), "2.0.0", "pr_opened">>}

\* the i-th entry of a list of kinds; its id tells the entries apart
EntryOfKind(kind, i) ==
    [Finding("CVE-" \o ToString(i), "a/b", <<kind[1], kind[2], kind[3]>>, 0)
        EXCEPT !.status = kind[4]]

EntriesOfKinds(kinds) == [i \in DOMAIN kinds |-> EntryOfKind(kinds[i], i)]

\* short lists, and each full-length list twice over (the same findings in
\* a second batch), so that the default cap of 5 is reached as well
TriageInputs ==
    {EntriesOfKinds(kinds) : kinds \in SeqsUpTo(TriageKinds, MaxEntries)}
        \cup {EntriesOfKinds(kinds \o kinds) : kinds \in [1..MaxEntries -> TriageKinds]}

Caps == {0, 1, 2, DEFAULT_POLICY.maxPrsPerRun}

Policies ==
    {[DEFAULT_POLICY EXCEPT !.autoPrThreshold = t, !.maxPrsPerRun = c,
                            !.requirePatchedVersion = r] :
        t \in {"CRITICAL", "HIGH", "LOW"}, c \in Caps, r \in BOOLEAN}

InitTriage ==
    /\ QueueInit
    /\ RaceOff
    /\ HostInit
    /\ ExecuteOff
    /\ inEntries \in TriageInputs
    /\ inPolicy \in Policies
    /\ outPlans = <<>>
    /\ tpc = "call"

Triage ==
    /\ tpc = "call"
    /\ outPlans' = triage(inEntries, inPolicy)
    /\ tpc' = "done"
    /\ UNCHANGED <<inEntries, inPolicy, queueVars, raceVars, hostVars, executeVars>>

NextTriage == Triage

SpecTriage == InitTriage /\ [][NextTriage]_vars

-----------------------------------------------------------------------------
(* triage called twice on the same entries, under two policies that differ *)
(* in draftThreshold alone: inPolicy, and inPolicy with the draftThreshold *)
(* in arg.  outPlans holds the plans of the first call, ret of the second. *)

DraftThresholds == {"CRITICAL", "HIGH", "MEDIUM", "LOW"}

DraftPolicies ==
    {[DEFAULT_POLICY EXCEPT !.autoPrThreshold = t, !.draftThreshold = d,
                            !.maxPrsPerRun = c, !.requirePatchedVersion = r] :
        t \in {"CRITICAL", "HIGH", "LOW"}, d \in {"HIGH", "LOW"},
        c \in {1, DEFAULT_POLICY.maxPrsPerRun}, r \in BOOLEAN}

InitDraft ==
    /\ file = <<>>
    /\ now = 0
    /\ arg \in DraftThresholds
    /\ ret = NoCall
    /\ wrote = FALSE
    /\ RaceOff
    /\ HostInit
    /\ ExecuteOff
    /\ inEntries \in {EntriesOfKinds(kinds) : kinds \in SeqsUpTo(TriageKinds, MaxBatch)}
    /\ inPolicy \in DraftPolicies
    /\ outPlans = <<>>
    /\ tpc = "call"

TriageTwice ==
    /\ tpc = "call"
    /\ outPlans' = triage(inEntries, inPolicy)
    /\ ret' = [op |-> "triage",
               plans |-> triage(inEntries, [inPolicy EXCEPT !.draftThreshold = arg])]
    /\ tpc' = "done"
    /\ UNCHANGED <<file, now, arg, wrote, inEntries, inPolicy, raceVars, hostVars,
                   executeVars>>

NextDraft == TriageTwice

SpecDraft == InitDraft /\ [][NextDraft]_vars

-----------------------------------------------------------------------------
(* triage of what pending reads from a queue file.  parseQueue takes the  *)
(* severity of a line as JSON.parse gives it: the file may hold a text    *)
(* that is not on the scale (written by another producer, or by hand).    *)

\* (severity, cvssScore, patchedVersion) of the stored entries
StoredGrades ==
    {<<"CRITICAL", Num(9), "2.0.0">>,
     <<"HIGH", Num(7), "2.0.0">>,
     <<"LOW", Null, "2.0.0">>,
     <<"UNKNOWN", Null, "2.0.0">>,
     <<"MODERATE", Num(5), "2.0.0">>,
     <<"critical", Num(9), "unknown">>}

StoredFiles ==
    {[i \in DOMAIN grades |->
         JsonStringify(Finding("CVE-" \o ToString(i), "a/b", grades[i], 0))] :
        grades \in SeqsUpTo(StoredGrades, MaxBatch)}

InitStored ==
    /\ file \in StoredFiles
    /\ now = 0
    /\ arg = <<>>
    /\ ret = NoCall
    /\ wrote = FALSE
    /\ RaceOff
    /\ HostInit
    /\ ExecuteOff
    /\ inEntries = <<>>
    /\ inPolicy \in DraftPolicies
    /\ outPlans = <<>>
    /\ tpc = "call"

\* const pendingEntries = await state.pending(sa);
\* const plans = decision.triage(pendingEntries, policy);
TriageStored ==
    /\ tpc = "call"
    /\ inEntries' = pending(file)
    /\ outPlans' = triage(pending(file), inPolicy)
    /\ tpc' = "done"
    /\ UNCHANGED <<queueVars, inPolicy, raceVars, hostVars, executeVars>>

NextStored == TriageStored

SpecStored == InitStored /\ [][NextStored]_vars

-----------------------------------------------------------------------------
(* Two State operations on one store whose awaits interleave: each is a    *)
(* state.read, then the computation on what was read and a state.write    *)
(* that replaces the file.                                                *)

RaceCalls(clock) ==
    {[op |-> "enqueue", input |-> <<e>>] : e \in EntryPool(clock)}
        \cup {[op |-> "update", input |-> <<u>>] : u \in UpdateItems}
        \cup {[op |-> "compact", input |-> r] : r \in Retentions}

\* what the operation does with the content it read
Computed(call, raw, clock) ==
    CASE call.op = "enqueue" -> enqueue(call.input, raw)
      [] call.op = "update" -> update(call.input, raw, clock)
      [] call.op = "compact" -> compact(raw, call.input, clock)

\* a writer that reads the file again when it writes
rawAtWrite(writer) == file

\* const raw = await state.read(QUEUE_FILE): the operation works on this
rawOf(writer) == writer.raw

\* the store before the two start: empty, or after one enqueue
InitRace ==
    /\ now = 0
    /\ arg = <<>>
    /\ ret = NoCall
    /\ wrote = FALSE
    /\ TriageOff
    /\ HostInit
    /\ ExecuteOff
    /\ writers = [w \in Writers |-> [pc |-> "idle"]]
    /\ adapterCalls = <<>>
    /\ \E e \in EntryPool(0) : file \in {<<>>, enqueue(<<e>>, <<>>).content}

\* the operation starts and its state.read returns
RaceRead(w) ==
    /\ writers[w].pc = "idle"
    /\ \E call \in RaceCalls(now) :
           writers' = [writers EXCEPT ![w] = [pc |-> "read", call |-> call, raw |-> file]]
    /\ adapterCalls' = Append(adapterCalls, <<w, "read">>)
    /\ UNCHANGED <<queueVars, triageVars, hostVars, executeVars>>

\* the operation computes, writes when it writes, and returns
RaceWrite(w) ==
    /\ writers[w].pc = "read"
    /\ LET done == Computed(writers[w].call, rawOf(writers[w]), now)
       IN  /\ file' = IF done.write THEN done.content ELSE file
           /\ writers' = [writers EXCEPT ![w] =
                              [pc |-> "done", call |-> @.call, raw |-> @.raw,
                               ret |-> done.ret]]
           /\ adapterCalls' = IF done.write
                              THEN Append(adapterCalls, <<w, "write">>)
                              ELSE adapterCalls
    /\ UNCHANGED <<now, arg, ret, wrote, triageVars, hostVars, executeVars>>

RaceStart == \E w \in Writers : RaceRead(w)

RaceFinish == \E w \in Writers : RaceWrite(w)

NextRace == RaceStart \/ RaceFinish \/ Tick

SpecRace == InitRace /\ [][NextRace]_vars

-----------------------------------------------------------------------------
(* The pipeline: the tools called one at a time against one store and one  *)
(* code host.                                                             *)

managedRepos == <<"a/b", "c/d">>

AdvisoryCve1 ==
    [ghsaId |-> "GHSA-1", cveId |-> <<"CVE-1">>, severity |-> "CRITICAL",
     cvssScore |-> Num(9), firstPatchedVersion |-> <<"2.0.0">>]

AdvisoryGhsa2 ==
    [ghsaId |-> "GHSA-2", cveId |-> Null, severity |-> "MODERATE",
     cvssScore |-> Null, firstPatchedVersion |-> Null]

\* what the advisory database returns for the packages of each repo
Feeds ==
    {[repo \in {"a/b", "c/d"} |->
         << <<<<QueryOk(IF repo = "a/b" THEN onAb ELSE onCd)>>>> >>] :
        onAb \in {<<AdvisoryCve1>>, <<AdvisoryGhsa2, AdvisoryCve1, AdvisoryCve1>>},
        onCd \in {<<>>, <<AdvisoryCve1>>}}

ScanThresholds == {"HIGH", "CRITICAL"}

PipelinePolicies ==
    {DEFAULT_POLICY,
     [DEFAULT_POLICY EXCEPT !.maxPrsPerRun = 1, !.requirePatchedVersion = FALSE]}

Handlers == {"app", "server"}

\* the host serves every call; or refuses the branch; or creates the pull
\* request and fails to label it
HostOutcomes ==
    {Host(throws, "main", <<Manifest(TRUE, TRUE, <<"^1.0.0">>)>>) :
        throws \in {"none", "createBranch", "addLabels"}}

ManualShapes ==
    {[status |-> "pending"], [status |-> "skipped", skipReason |-> "manual"]}

PipelineRetentions == {0, DEFAULT_RETENTION}

cve_scan ==
    \E feed \in Feeds, threshold \in ScanThresholds, dryRun \in BOOLEAN :
        LET result == detect(managedRepos, threshold, feed, now)
        IN  /\ file' = IF ~dryRun /\ Len(result.findings) > 0
                       THEN enqueue(result.findings, file).content
                       ELSE file
            /\ UNCHANGED <<now, arg, ret, wrote, triageVars, raceVars, hostVars, executeVars>>

cve_triage ==
    \E policy \in PipelinePolicies, dryRun \in BOOLEAN, handler \in Handlers :
        LET pendingEntries == pending(file)
            plans == triage(pendingEntries, policy)
            calling == {i \in DOMAIN plans : ~dryRun /\ plans[i].action # "skip"}
        IN  \E outcomes \in [calling -> HostOutcomes] :
                LET done == execute(plans, outcomes, dryRun, Len(prs))
                IN  /\ Len(prs) + Len(done.prs) <= MaxPrs
                    /\ prs' = prs \o done.prs
                    /\ file' = IF dryRun THEN file
                               ELSE update(updatesOf(done.results, plans, handler),
                                           file, now).content
                    /\ UNCHANGED <<now, arg, ret, wrote, triageVars, raceVars, executeVars>>

cve_queue_update ==
    \E id \in {"CVE-1"}, repo \in {"a/b", "c/d"}, shape \in ManualShapes :
        /\ file' = update(<<[id |-> id, repo |-> repo] @@ shape>>, file, now).content
        /\ UNCHANGED <<now, arg, ret, wrote, triageVars, raceVars, hostVars, executeVars>>

cve_compact ==
    \E retentionDays \in PipelineRetentions :
        LET done == compact(file, retentionDays, now)
        IN  /\ file' = IF done.write THEN done.content ELSE file
            /\ UNCHANGED <<now, arg, ret, wrote, triageVars, raceVars, hostVars, executeVars>>

NextPipeline == cve_scan \/ cve_triage \/ cve_queue_update \/ cve_compact \/ Tick

SpecPipeline == Init /\ [][NextPipeline]_vars

-----------------------------------------------------------------------------
(* Runs of scan and triage, as the MCP tools and as the CLI commands, each  *)
(* leaving in ret what was run and in wrote whether state.write was called *)

\* args.dry_run of a tool call: absent, true or false
ToolDryRuns == {Null, <<TRUE>>, <<FALSE>>}

\* --dry-run <bool> of a command, a string that defaults to "false"
CommandDryRuns == {"true", "false", "yes"}

\* (args.dry_run as boolean) ?? false
dryRunOfTool(dry_run) == OrElse(dry_run, FALSE)

\* opts.dryRun === "true"
dryRunOfCommand(dryRun) == dryRun = "true"

\* a scan that enqueues whatever it was asked
scanEnqueuesAlways(dryRun, result) == Len(result.findings) > 0

\* if (!dryRun && result.findings.length > 0)
scanEnqueues(dryRun, result) == ~dryRun /\ Len(result.findings) > 0

\* if (!dryRun) { ... state.update(updates, sa) }
triageUpdates(dryRun) == ~dryRun

ScanRun(op, dryRun) ==
    \E feed \in Feeds, threshold \in ScanThresholds :
        LET result == detect(managedRepos, threshold, feed, now)
            enqueues == scanEnqueues(dryRun, result)
        IN  /\ file' = IF enqueues THEN enqueue(result.findings, file).content ELSE file
            /\ wrote' = enqueues
            /\ ret' = [op |-> op, dryRun |-> dryRun, findings |-> Len(result.findings)]
            /\ UNCHANGED <<now, arg, triageVars, raceVars, hostVars, executeVars>>

TriageRun(op, dryRun, handler) ==
    \E policy \in PipelinePolicies :
        LET pendingEntries == pending(file)
            plans == triage(pendingEntries, policy)
            calling == {i \in DOMAIN plans : ~dryRun /\ plans[i].action # "skip"}
        IN  \E outcomes \in [calling -> HostOutcomes] :
                LET done == execute(plans, outcomes, dryRun, Len(prs))
                IN  /\ Len(prs) + Len(done.prs) <= MaxPrs
                    /\ prs' = prs \o done.prs
                    /\ file' = IF triageUpdates(dryRun)
                               THEN update(updatesOf(done.results, plans, handler),
                                           file, now).content
                               ELSE file
                    /\ wrote' = triageUpdates(dryRun)
                    /\ ret' = [op |-> op, dryRun |-> dryRun, processed |-> Len(done.results)]
                    /\ UNCHANGED <<now, arg, triageVars, raceVars, executeVars>>

ScanTool == \E dry_run \in ToolDryRuns : ScanRun("cve_scan", dryRunOfTool(dry_run))

TriageTool ==
    \E dry_run \in ToolDryRuns, handler \in Handlers :
        TriageRun("cve_triage", dryRunOfTool(dry_run), handler)

ScanCommand == \E dryRun \in CommandDryRuns : ScanRun("scan", dryRunOfCommand(dryRun))

TriageCommand ==
    \E dryRun \in CommandDryRuns : TriageRun("triage", dryRunOfCommand(dryRun), "app")

NextRuns == ScanTool \/ TriageTool \/ ScanCommand \/ TriageCommand

SpecRuns == Init /\ [][NextRuns]_vars

-----------------------------------------------------------------------------
(* One triage run, a step at a time: cve_triage reads the pending entries *)
(* and plans them, execute takes the plans one by one, and state.update   *)
(* is called once, after execute has returned.  The process may end at    *)
(* any step before that.  arg is the run in progress, ret the last thing  *)
(* that happened to a run.  A run keeps the calls execute made on the   *)
(* host (calls) and, when the run before it stopped, the entries for      *)
(* which that run had opened a pull request (opened).                     *)

NoRun == [op |-> "idle"]

InitTriageRun ==
    /\ file = <<>>
    /\ now = 0
    /\ arg = NoRun
    /\ ret = NoCall
    /\ wrote = FALSE
    /\ TriageOff
    /\ RaceOff
    /\ HostInit
    /\ ExecuteOff

\* const pendingEntries = await state.pending(sa);
\* const plans = decision.triage(pendingEntries, policy);
TriagePending ==
    /\ arg.op = "idle"
    /\ \E policy \in PipelinePolicies, dryRun \in BOOLEAN, handler \in Handlers :
        LET pendingEntries == pending(file)
            plans == triage(pendingEntries, policy)
        IN  /\ arg' = [op |-> "cve_triage", handler |-> handler, dryRun |-> dryRun,
                       policy |-> policy, input |-> pendingEntries, plans |-> plans,
                       results |-> <<>>, calls |-> <<>>,
                       opened |-> IF ret.op = "stopped" THEN ret.opened ELSE {}]
            /\ ret' = [op |-> "started", input |-> pendingEntries,
                       left |-> IF ret.op = "stopped" THEN ret.left ELSE <<>>]
    /\ UNCHANGED <<file, now, wrote, triageVars, raceVars, hostVars, executeVars>>

\* one turn of the loop of execute
TriageExecute ==
    /\ arg.op = "cve_triage"
    /\ Len(arg.results) < Len(arg.plans)
    /\ \E host \in HostOutcomes :
        LET one == executeOne(arg.plans[Len(arg.results) + 1], host, arg.dryRun,
                              Len(prs) + 1)
        IN  /\ Len(prs) + Len(one.prs) <= MaxPrs
            /\ prs' = prs \o one.prs
            /\ arg' = [arg EXCEPT !.results = Append(@, one.result),
                                  !.calls = @ \o one.calls]
    /\ UNCHANGED <<file, now, ret, wrote, triageVars, raceVars, executeVars>>

\* if (!dryRun) { ... await state.update(updates, sa); }
TriageUpdate ==
    /\ arg.op = "cve_triage"
    /\ Len(arg.results) = Len(arg.plans)
    /\ file' = IF triageUpdates(arg.dryRun)
               THEN update(updatesOf(arg.results, arg.plans, arg.handler),
                           file, now).content
               ELSE file
    /\ wrote' = triageUpdates(arg.dryRun)
    /\ ret' = [op |-> "completed", dryRun |-> arg.dryRun, handler |-> arg.handler,
               input |-> arg.input, results |-> arg.results]
    /\ arg' = NoRun
    /\ UNCHANGED <<now, triageVars, raceVars, hostVars, executeVars>>

\* the process ends before state.update is called: what execute has done
\* on the host stays done, nothing is written
TriageStops ==
    /\ arg.op = "cve_triage"
    /\ arg' = NoRun
    /\ ret' = [op |-> "stopped", processed |-> Len(arg.results),
               opened |-> {[id |-> arg.results[i].cveId, repo |-> arg.results[i].repo] :
                              i \in {n \in DOMAIN arg.results :
                                         Has(arg.results[n], "prNumber")}},
               left |-> [i \in 1..(Len(arg.plans) - Len(arg.results)) |->
                            arg.plans[Len(arg.results) + i].entry]]
    /\ UNCHANGED <<file, now, wrote, triageVars, raceVars, hostVars, executeVars>>

\* a scan between two runs
ScanBetweenRuns == arg.op = "idle" /\ cve_scan

NextTriageRun ==
    TriagePending \/ TriageExecute \/ TriageUpdate \/ TriageStops
        \/ ScanBetweenRuns \/ Tick

SpecTriageRun == InitTriageRun /\ [][NextTriageRun]_vars

-----------------------------------------------------------------------------
(* detect as a function of the repos, the threshold and what the reads and *)
(* the queries meet                                                        *)

AdvisoryCve3 ==
    [ghsaId |-> "GHSA-3", cveId |-> <<"CVE-3">>, severity |-> "high",
     cvssScore |-> Num(7), firstPatchedVersion |-> Null]

AdvisoryGhsa4 ==
    [ghsaId |-> "GHSA-4", cveId |-> Null, severity |-> "low",
     cvssScore |-> Null, firstPatchedVersion |-> <<"2.0.0">>]

Answers ==
    {QueryOk(<<AdvisoryCve1>>),
     QueryOk(<<AdvisoryCve3, AdvisoryCve1>>),
     QueryOk(<<AdvisoryGhsa2, AdvisoryGhsa4>>),
     QueryNotOk,
     QueryRejects}

\* no manifest path is looked at; the one manifest cannot be read; or it is
\* read and declares one package or more
RepoFeeds ==
    {<<>>, <<Null>>}
        \cup {<<<<queries>>>> : queries \in SeqsUpTo(Answers, MaxPackages) \ {<<>>}}

DetectRepos == {<<>>, <<"a/b">>, <<"a/b", "c/d">>, <<"a/b", "a/b">>}

DetectThresholds == {"CRITICAL", "HIGH", "LOW"}

DetectInputs(repos) ==
    {[repos |-> repos, severityThreshold |-> threshold,
      feed |-> [repo \in {"a/b", "c/d"} |-> IF repo = "a/b" THEN onAb ELSE onCd]] :
        threshold \in DetectThresholds, onAb \in RepoFeeds, onCd \in RepoFeeds}

InitDetect ==
    /\ file = <<>>
    /\ now = 0
    /\ \E repos \in DetectRepos : arg \in DetectInputs(repos)
    /\ ret = NoCall
    /\ wrote = FALSE
    /\ TriageOff
    /\ RaceOff
    /\ HostInit
    /\ ExecuteOff

Detect ==
    /\ ret = NoCall
    /\ ret' = [op |-> "detect",
               result |-> detect(arg.repos, arg.severityThreshold, arg.feed, now)]
    /\ UNCHANGED <<file, now, arg, wrote, triageVars, raceVars, hostVars, executeVars>>

NextDetect == Detect

SpecDetect == InitDetect /\ [][NextDetect]_vars

-----------------------------------------------------------------------------
(* meetsThreshold as a function of three severities of the scale *)

Severities == {SEVERITY_ORDER[i] : i \in DOMAIN SEVERITY_ORDER}

InitSeverity ==
    /\ file = <<>>
    /\ now = 0
    /\ arg \in Severities \X Severities \X Severities
    /\ ret = NoCall
    /\ wrote = FALSE
    /\ TriageOff
    /\ RaceOff
    /\ HostInit
    /\ ExecuteOff

MeetsThreshold ==
    /\ ret = NoCall
    /\ ret' = [op |-> "meetsThreshold",
               ss |-> meetsThreshold(arg[1], arg[1]),
               st |-> meetsThreshold(arg[1], arg[2]),
               ts |-> meetsThreshold(arg[2], arg[1]),
               tu |-> meetsThreshold(arg[2], arg[3]),
               su |-> meetsThreshold(arg[1], arg[3])]
    /\ UNCHANGED <<file, now, arg, wrote, triageVars, raceVars, hostVars, executeVars>>

NextSeverity == MeetsThreshold

SpecSeverity == InitSeverity /\ [][NextSeverity]_vars

-----------------------------------------------------------------------------
(* normalizeSeverity on the severities of a batch of advisories: texts in  *)
(* any case, texts outside the scale, and no severity at all               *)

RawSeverities ==
    {Null} \cup {<<s>> : s \in {"CRITICAL", "critical", "Critical", "HIGH", "high",
                                 "MEDIUM", "medium", "MODERATE", "moderate",
                                 "LOW", "low", "NONE", "none", "UNKNOWN", "unknown",
                                 " high", ""}}

InitNormalize ==
    /\ file = <<>>
    /\ now = 0
    /\ arg \in SeqsUpTo(RawSeverities, MaxBatch)
    /\ ret = NoCall
    /\ wrote = FALSE
    /\ TriageOff
    /\ RaceOff
    /\ HostInit
    /\ ExecuteOff

\* each severity normalised, and each result normalised again
NormalizeSeverity ==
    /\ ret = NoCall
    /\ ret' = [op |-> "normalizeSeverity",
               out |-> [i \in DOMAIN arg |-> normalizeSeverity(arg[i])],
               again |-> [i \in DOMAIN arg |->
                             normalizeSeverity(<<normalizeSeverity(arg[i])>>)]]
    /\ UNCHANGED <<file, now, arg, wrote, triageVars, raceVars, hostVars, executeVars>>

NextNormalize == NormalizeSeverity

SpecNormalize == InitNormalize /\ [][NextNormalize]_vars

-----------------------------------------------------------------------------
(* serialize and parseQueue as functions of a queue Map *)

\* entries as detect makes them and as update leaves them
RoundTripPool ==
    LET found == {Finding(pair[1], pair[2], g, 0) :
                      pair \in {<<"CVE-1", "a/b">>, <<"GHSA-2", "a/b">>, <<"CVE-1", "c/d">>},
                      g \in Grades}
    IN  found \cup {updated(e, shape, 1) : e \in found, shape \in UpdateShapes}

\* the Maps of n entries, each under its own key
QueueMaps(n) ==
    {[i \in 1..n |-> [k |-> EntryKey(es[i]), v |-> es[i]]] :
        es \in {x \in [1..n -> RoundTripPool] :
                   \A i, j \in 1..n : EntryKey(x[i]) = EntryKey(x[j]) => i = j}}

InitRoundTrip ==
    /\ file = <<>>
    /\ now = 0
    /\ \E n \in 0..MaxEntries : arg \in QueueMaps(n)
    /\ ret = NoCall
    /\ wrote = FALSE
    /\ TriageOff
    /\ RaceOff
    /\ HostInit
    /\ ExecuteOff

RoundTrip ==
    /\ ret = NoCall
    /\ ret' = [op |-> "roundTrip", map |-> parseQueue(serialize(arg))]
    /\ UNCHANGED <<file, now, arg, wrote, triageVars, raceVars, hostVars, executeVars>>

NextRoundTrip == RoundTrip

SpecRoundTrip == InitRoundTrip /\ [][NextRoundTrip]_vars

-----------------------------------------------------------------------------
(* list and pending as functions of the store and of the filters *)

ListGrades ==
    {<<"CRITICAL", Num(9), "2.0.0">>, <<"HIGH", Num(7), "2.0.0">>,
     <<"HIGH", Null, "2.0.0">>, <<"UNKNOWN", Null, "unknown">>}

\* entries as detect makes them, pending or with a pull request opened
ListPool ==
    LET found == {Finding(pair[1], pair[2], g, 0) :
                      pair \in {<<"CVE-1", "a/b">>, <<"GHSA-2", "a/b">>, <<"CVE-1", "c/d">>},
                      g \in ListGrades}
    IN  found \cup {[e EXCEPT !.status = "pr_opened"] : e \in found}

\* the stores of n entries, no pair twice
Stores(n) ==
    {[i \in 1..n |-> JsonStringify(es[i])] :
        es \in {x \in [1..n -> ListPool] :
                   \A i, j \in 1..n : EntryKey(x[i]) = EntryKey(x[j]) => i = j}}

\* what a caller of list leaves out it leaves undefined
ListOpts ==
    {status @@ severityMin @@ repo @@ limit :
        status \in {<<>>, [status |-> "pr_opened"], [status |-> "all"]},
        severityMin \in {<<>>, [severityMin |-> "HIGH"]},
        repo \in {<<>>, [repo |-> "a/b"]},
        limit \in {<<>>, [limit |-> 1]}}

InitList ==
    /\ \E n \in 0..MaxEntries : file \in Stores(n)
    /\ now = 0
    /\ arg = <<>>
    /\ ret = NoCall
    /\ wrote = FALSE
    /\ TriageOff
    /\ RaceOff
    /\ HostInit
    /\ ExecuteOff

List ==
    /\ ret = NoCall
    /\ \E opts \in ListOpts :
           /\ arg' = opts
           /\ ret' = [op |-> "list"] @@ list(file, opts)
    /\ UNCHANGED <<file, now, wrote, triageVars, raceVars, hostVars, executeVars>>

Pending ==
    /\ ret = NoCall
    /\ ret' = [op |-> "pending", entries |-> pending(file)]
    /\ UNCHANGED <<file, now, arg, wrote, triageVars, raceVars, hostVars, executeVars>>

NextList == List \/ Pending

SpecList == InitList /\ [][NextList]_vars

-----------------------------------------------------------------------------
(* execute as a function of the plans and of what the code host does *)

\* (ecosystem, severity, patchedVersion) of the entries of the plans; "nuget"
\* has no manifest path, "go" has one and no updater
PlanKinds ==
    {<<"npm", "CRITICAL", "2.0.0">>,
     <<"pip", "HIGH", "2.0.0">>,
     <<"go", "HIGH", "2.0.0">>,
     <<"nuget", "CRITICAL", "2.0.0">>,
     <<"npm", "HIGH", "unknown">>,
     <<"npm", "LOW", "2.0.0">>}

ExecuteIds == <<"CVE-1", "GHSA-2", "CVE-3", "GHSA-4">>

\* the plan triage makes, the cap not reached and no patch required, of the
\* i-th entry; the entries alternate between the two repos
PlanOfKind(kind, i) ==
    planFor([Finding(ExecuteIds[i], managedRepos[2 - (i % 2)],
                     <<kind[2], Null, kind[3]>>, 0)
                EXCEPT !.ecosystem = kind[1]],
            0, [DEFAULT_POLICY EXCEPT !.requirePatchedVersion = FALSE])

\* package.json listing the package below the patch, at the patch, and one
\* in another layout that does not list it; requirements.txt (not JSON)
\* pinning the package below the patch
Manifests ==
    {Null,
     <<Manifest(TRUE, TRUE, <<"^1.0.0">>)>>,
     <<Manifest(TRUE, TRUE, <<"^2.0.0">>)>>,
     <<Manifest(TRUE, FALSE, Null)>>,
     <<Manifest(FALSE, FALSE, <<"==1.0.0">>)>>}

\* the adapter calls that can reject; getFileContent catches every failure
\* of its own and returns null
AdapterCalls ==
    {"getDefaultBranch", "createBranch", "commitFiles", "createPullRequest",
     "addLabels"}

Hosts ==
    {Host("none", "main", manifest) : manifest \in Manifests}
        \cup {Host(call, "main", <<Manifest(TRUE, TRUE, <<"^1.0.0">>)>>) :
                  call \in AdapterCalls}
        \cup {Host("none", "trunk", <<Manifest(TRUE, TRUE, <<"^1.0.0">>)>>)}

\* every manifest and every failing call is tried against the plans with a
\* manifest updater and a known patch; the other plans meet a host that
\* serves every call and one that refuses the pull request
HostsFor(kind) ==
    IF kind[1] \in {"npm", "pip"} /\ kind[2] # "LOW" /\ kind[3] # "unknown"
    THEN Hosts
    ELSE {Host(call, "main", <<Manifest(TRUE, TRUE, <<"^1.0.0">>)>>) :
              call \in {"none", "createPullRequest"}}

Cases == UNION {{<<kind, host>> : host \in HostsFor(kind)} : kind \in PlanKinds}

\* n plans, and for each the host as it answers the calls made for it
ExecuteInputs(n) ==
    {[plans |-> [i \in 1..n |-> PlanOfKind(cases[i][1], i)],
      hosts |-> [i \in 1..n |-> cases[i][2]],
      dryRun |-> dryRun] :
        cases \in [1..n -> Cases],
        dryRun \in BOOLEAN}

InitExecute ==
    /\ QueueInit
    /\ TriageOff
    /\ RaceOff
    /\ HostInit
    /\ \E n \in 0..MaxPlans : exIn \in ExecuteInputs(n)
    /\ exOut = NoCall

Execute ==
    /\ exOut = NoCall
    /\ LET done == execute(exIn.plans, exIn.hosts, exIn.dryRun, Len(prs))
       IN  /\ exOut' = [op |-> "execute", results |-> done.results,
                        prs |-> done.prs, calls |-> done.calls]
           /\ prs' = prs \o done.prs
    /\ UNCHANGED <<queueVars, triageVars, raceVars, exIn>>

NextExecute == Execute

SpecExecute == InitExecute /\ [][NextExecute]_vars

-----------------------------------------------------------------------------
(* Properties of the State layer *)

\* the entries the queue file holds
Entries(f) == {JsonParse(f[i]) : i \in DOMAIN f}

\* the entries of f with the pair (id, repo)
Stored(f, id, repo) == {e \in Entries(f) : e.id = id /\ e.repo = repo}

SamePair(a, b) == a.id = b.id /\ a.repo = b.repo

EnqueueStep == ret = NoCall /\ ret'.op = "enqueue"

CompactStep == ret = NoCall /\ ret'.op = "compact"

\* C1: whatever batches enqueue was given (batches that repeat a pair, pairs
\* already stored), no two lines of the queue file hold the same (id, repo).
C1_KeyUniqueness ==
    \A i, j \in DOMAIN file :
        SamePair(JsonParse(file[i]), JsonParse(file[j])) => i = j

\* enqueue has just taken a batch that holds one pair twice, with different
\* severities, and added it once beside another stored entry
C1_Witness ==
    /\ ret.op = "enqueue"
    /\ Len(arg) = 2
    /\ SamePair(arg[1], arg[2])
    /\ arg[1].severity # arg[2].severity
    /\ ret.added = 1
    /\ ret.duplicates = 1
    /\ Len(file) = 2

C3_PendingImmunity ==
    [][\A e \in Entries(file) :
          e.status = "pending" => Stored(file', e.id, e.repo) # {}]_vars

\* compact has just run with a window of zero days or less and removed
\* something, and a pending entry older than the window is still there
C3_Witness ==
    /\ ret.op = "compact"
    /\ arg <= 0
    /\ ret.removed >= 1
    /\ \E e \in Entries(file) : e.status = "pending" /\ e.detectedAt < now - arg

\* C10: a compact step removes exactly the entries that are not pending and
\* whose processedAt (detectedAt when there is none) is earlier than now
\* minus retentionDays; the others stay, in order and unchanged.
C10_Expired(e, retentionDays) ==
    /\ e.status # "pending"
    /\ (IF "processedAt" \in DOMAIN e THEN e.processedAt ELSE e.detectedAt)
          < now - retentionDays

C10_CompactExact ==
    [][CompactStep =>
        file' = SelectSeq(file, LAMBDA l : ~C10_Expired(JsonParse(l), arg'))]_vars

\* compact has just removed one entry that had no processedAt, by its
\* detectedAt, and kept a resolved entry that is inside the window
C10_Witness ==
    /\ ret.op = "compact"
    /\ ret.removed = 1
    /\ ret.byStatus = [s \in {"skipped"} |-> 1]
    /\ \E e \in Entries(file) :
          e.status = "pr_opened" /\ e.processedAt >= now - arg

-----------------------------------------------------------------------------
(* Properties of update *)

UpdateStep == ret = NoCall /\ ret'.op = "update"

\* the items of the batch that name the pair of e
Naming(updates, e) == {n \in DOMAIN updates : SamePair(updates[n], e)}

\* the last of the items ns of the batch
LastOf(ns) == CHOOSE n \in ns : \A m \in ns : m <= n

\* what the items of the batch, taken in order, make of the stored entry e
\* at the time clock
C11_Expected(e, updates, clock) ==
    LET ns == Naming(updates, e)
        Giving(f) == {n \in ns : f \in DOMAIN updates[n]}
        given == {f \in {"prNumber", "prUrl", "skipReason"} : Giving(f) # {}}
    IN  [f \in DOMAIN e \cup given \cup {"processedAt"} |->
            IF f = "status" THEN updates[LastOf(ns)].status
            ELSE IF f = "processedAt" THEN clock
            ELSE IF f \in given THEN updates[LastOf(Giving(f))][f]
            ELSE e[f]]

\* C11: an update step leaves each stored entry that the batch names with
\* the status given for it (the last one given, the items being taken in
\* order), with prNumber, prUrl and skipReason as provided and as stored
\* where not provided, and with processedAt at the time of the call; it
\* counts the items whose pair is stored as updated, and updated plus
\* notFound is the number of items.
C11_UpdateOverwrites ==
    [][UpdateStep =>
        /\ \A e \in Entries(file) :
               Naming(arg', e) # {}
                   => Stored(file', e.id, e.repo) = {C11_Expected(e, arg', now)}
        /\ ret'.updated =
               Cardinality({n \in DOMAIN arg' :
                               Stored(file, arg'[n].id, arg'[n].repo) # {}})
        /\ ret'.updated + ret'.notFound = Len(arg')]_vars

\* update has just set to error, with a reason, an entry that keeps the pull
\* request number it had: the item gave none
C11_Witness ==
    /\ ret.op = "update"
    /\ ret.updated >= 1
    /\ \E n \in DOMAIN arg : \E e \in Stored(file, arg[n].id, arg[n].repo) :
           /\ "prNumber" \notin DOMAIN arg[n]
           /\ arg[n].status = "error"
           /\ e.status = "error"
           /\ e.skipReason = "boom"
           /\ "prNumber" \in DOMAIN e
           /\ e.processedAt = now

\* C12: an update step keeps the lines of the queue file in number, order
\* and pair; a line whose pair no item names is unchanged; the items whose
\* pair is not stored are the ones counted notFound, and their pairs are
\* not stored afterwards either.
C12_UpdateFrame ==
    [][UpdateStep =>
        /\ Len(file') = Len(file)
        /\ \A i \in DOMAIN file :
               /\ SamePair(JsonParse(file'[i]), JsonParse(file[i]))
               /\ Naming(arg', JsonParse(file[i])) = {} => file'[i] = file[i]
        /\ ret'.notFound =
               Cardinality({n \in DOMAIN arg' :
                               Stored(file, arg'[n].id, arg'[n].repo) = {}})
        /\ \A n \in DOMAIN arg' :
               Stored(file, arg'[n].id, arg'[n].repo) = {}
                   => Stored(file', arg'[n].id, arg'[n].repo) = {}]_vars

\* update has just been given an item it found and an item for a pair that
\* is not stored, beside a stored entry that no item names
C12_Witness ==
    /\ ret.op = "update"
    /\ ret.updated = 1
    /\ ret.notFound = 1
    /\ \E n \in DOMAIN arg : Stored(file, arg[n].id, arg[n].repo) = {}
    /\ \E e \in Entries(file) : Naming(arg, e) = {}

-----------------------------------------------------------------------------
(* Properties of triage *)

IsActing(plan) == plan.action \in {"open_pr", "open_draft"}

\* the running action count when the i-th plan was made
ActingBefore(plans, i) == Cardinality({j \in 1..(i - 1) : IsActing(plans[j])})

ActingCount(plans) == ActingBefore(plans, Len(plans) + 1)

CapSkipped(plan) == plan.action = "skip" /\ plan.reason = capReason(inPolicy)

MeetsAutoPr(e) == meetsThreshold(e.severity, inPolicy.autoPrThreshold)

\* a goes before b in "most severe first, ties broken by higher score"
AtLeastAsSevere(a, b) ==
    \/ IndexOf(SEVERITY_ORDER, a.severity) < IndexOf(SEVERITY_ORDER, b.severity)
    \/ /\ a.severity = b.severity
       /\ ScoreOrZero(a) >= ScoreOrZero(b)

\* N pending entries that all meet the threshold, under a cap k < N
C6_Applies ==
    /\ tpc = "done"
    /\ \A i \in DOMAIN inEntries :
           inEntries[i].status = "pending" /\ MeetsAutoPr(inEntries[i])
    /\ inPolicy.maxPrsPerRun < Len(inEntries)

C6_Fair ==
    /\ Len(outPlans) = Len(inEntries)
    /\ ActingCount(outPlans) = inPolicy.maxPrsPerRun
    /\ Cardinality({i \in DOMAIN outPlans : CapSkipped(outPlans[i])})
           = Len(inEntries) - inPolicy.maxPrsPerRun
    /\ \A i, j \in DOMAIN outPlans :
           IsActing(outPlans[i]) /\ CapSkipped(outPlans[j])
               => AtLeastAsSevere(outPlans[i].entry, outPlans[j].entry)

\* C6 as stated: N pending entries that all meet the threshold under a cap
\* k < N get exactly k acting plans and N - k skips with the cap reason, the
\* acting ones being the most severe.  An entry without a patched version
\* that is reached before the cap is skipped for the missing patch instead.
C6_CapFairnessAsStated == C6_Applies => C6_Fair

\* C6: N pending entries that all meet the threshold and each have a known
\* patched version (or the policy does not require one), under a cap k < N,
\* get exactly k acting plans and N - k skips with the cap reason, and no
\* skipped entry is more severe than an acting one, ties going to the
\* higher score.
C6_CapFairness ==
    /\ C6_Applies
    /\ inPolicy.requirePatchedVersion
           => \A i \in DOMAIN inEntries : ~noPatchedVersion(inEntries[i])
    => C6_Fair

\* six that meet the threshold under the default cap of five, where the one
\* left out was handed in ahead of one that is acted on
C6_Witness ==
    /\ C6_Applies
    /\ \A i \in DOMAIN inEntries : ~noPatchedVersion(inEntries[i])
    /\ Len(inEntries) = 6
    /\ inPolicy.maxPrsPerRun = 5
    /\ \E i, j \in DOMAIN outPlans : \E m, n \in DOMAIN inEntries :
           /\ IsActing(outPlans[i]) /\ CapSkipped(outPlans[j])
           /\ inEntries[m] = outPlans[j].entry
           /\ inEntries[n] = outPlans[i].entry
           /\ m < n

\* C7: under a policy whose maxPrsPerRun is not negative, at most
\* maxPrsPerRun of the plans triage returns are open_pr or open_draft, the
\* two counted together.
C7_ActingWithinCap ==
    tpc = "done" /\ inPolicy.maxPrsPerRun >= 0
        => Cardinality({i \in DOMAIN outPlans :
                           outPlans[i].action = "open_pr"})
             + Cardinality({i \in DOMAIN outPlans :
                               outPlans[i].action = "open_draft"})
             <= inPolicy.maxPrsPerRun

\* a run that fills a cap of two with one open_pr and one open_draft and
\* turns a third entry away for the cap
C7_Witness ==
    /\ tpc = "done"
    /\ inPolicy.maxPrsPerRun = 2
    /\ \E i, j, k \in DOMAIN outPlans :
           /\ outPlans[i].action = "open_pr"
           /\ outPlans[j].action = "open_draft"
           /\ CapSkipped(outPlans[k])

\* C8: the skip checks run in the order cap, patch, threshold: an entry
\* below the threshold never gets the cap reason; an entry that meets the
\* threshold when the cap is reached gets the cap reason, patched or not; an
\* entry below the threshold without a patched version, when one is
\* required, gets the no-patch reason and not the threshold reason.
C8_SkipOrder ==
    tpc = "done" =>
        \A i \in DOMAIN outPlans :
            LET plan == outPlans[i]
                e == plan.entry
            IN  /\ ~MeetsAutoPr(e) => ~CapSkipped(plan)
                /\ MeetsAutoPr(e)
                       /\ ActingBefore(outPlans, i) >= inPolicy.maxPrsPerRun
                       => CapSkipped(plan)
                /\ ~MeetsAutoPr(e) /\ inPolicy.requirePatchedVersion
                       /\ noPatchedVersion(e)
                       => /\ plan.action = "skip"
                          /\ plan.reason = noPatchReason
                          /\ plan.reason # thresholdReason(e, inPolicy)

\* one run in which an unpatched entry is turned away for the cap and an
\* unpatched entry below the threshold for the missing patch
C8_Witness ==
    /\ tpc = "done"
    /\ inPolicy.requirePatchedVersion
    /\ inPolicy.maxPrsPerRun > 0
    /\ \E i, j \in DOMAIN outPlans :
           /\ noPatchedVersion(outPlans[i].entry)
           /\ CapSkipped(outPlans[i])
           /\ noPatchedVersion(outPlans[j].entry)
           /\ ~MeetsAutoPr(outPlans[j].entry)
           /\ outPlans[j].reason = noPatchReason

\* C9: under the default policy, every pending entry gets a plan, and a
\* plan made while the cap is not reached is: skip for the missing patch
\* when the patched version is missing or "unknown"; otherwise open_pr
\* for CRITICAL, open_draft for HIGH, skip for MEDIUM, LOW, NONE, UNKNOWN.
C9_DefaultPolicy ==
    tpc = "done" /\ inPolicy = DEFAULT_POLICY =>
        /\ \A m \in DOMAIN inEntries :
               inEntries[m].status = "pending"
                   => \E i \in DOMAIN outPlans : outPlans[i].entry = inEntries[m]
        /\ \A i \in DOMAIN outPlans :
               LET plan == outPlans[i]
                   e == plan.entry
               IN  ActingBefore(outPlans, i) < 5 =>
                       IF noPatchedVersion(e)
                       THEN plan.action = "skip" /\ plan.reason = noPatchReason
                       ELSE /\ e.severity = "CRITICAL" => plan.action = "open_pr"
                            /\ e.severity = "HIGH" => plan.action = "open_draft"
                            /\ e.severity \in {"MEDIUM", "LOW", "NONE", "UNKNOWN"}
                                   => plan.action = "skip"

\* the defaults applied to a HIGH entry, to a patched entry below HIGH and
\* to an unpatched one
C9_Witness ==
    /\ tpc = "done"
    /\ inPolicy = DEFAULT_POLICY
    /\ \E i, j, k \in DOMAIN outPlans :
           /\ outPlans[i].entry.severity = "HIGH"
           /\ outPlans[i].action = "open_draft"
           /\ ~noPatchedVersion(outPlans[j].entry)
           /\ outPlans[j].entry.severity = "MEDIUM"
           /\ outPlans[j].action = "skip"
           /\ noPatchedVersion(outPlans[k].entry)
           /\ outPlans[k].reason = noPatchReason

-----------------------------------------------------------------------------
(* Properties of interleaved State operations *)

\* where the call stands in adapterCalls, 0 when it was not made
CallAt(w, what) ==
    IF \E i \in DOMAIN adapterCalls : adapterCalls[i] = <<w, what>>
    THEN CHOOSE i \in DOMAIN adapterCalls : adapterCalls[i] = <<w, what>>
    ELSE 0

\* q read before p wrote, and wrote after it
StaleWrite(p, q) ==
    /\ p # q
    /\ CallAt(p, "write") > 0
    /\ CallAt(q, "read") < CallAt(p, "write")
    /\ CallAt(p, "write") < CallAt(q, "write")

\* the keys the call is about
NamedBy(call) ==
    IF call.op = "compact" THEN {}
    ELSE {Key(call.input[i].id, call.input[i].repo) : i \in DOMAIN call.input}

\* C5: when the second writer read before the first wrote, then after the
\* second writer's write the store holds, for every key the second
\* writer's call is not about, only what the second writer read: an entry
\* the first writer added is absent, a status it set is back to what it was.
C5_StaleWriteDiscards ==
    \A p, q \in Writers :
        StaleWrite(p, q) =>
            \A k \in MapKeys(parseQueue(file)) \ NamedBy(writers[q].call) :
                /\ MapHas(parseQueue(writers[q].raw), k)
                /\ MapGet(parseQueue(file), k) = MapGet(parseQueue(writers[q].raw), k)

\* the first writer's enqueue reported one entry added, and the entry is
\* not in the store after the second writer's write
C5_Witness ==
    \E p, q \in Writers :
        /\ StaleWrite(p, q)
        /\ writers[p].ret.op = "enqueue"
        /\ writers[p].ret.added = 1
        /\ writers[q].call.op = "update"
        /\ writers[q].ret.updated = 1
        /\ ~MapHas(parseQueue(file), EntryKey(writers[p].call.input[1]))

-----------------------------------------------------------------------------
(* Properties of the pipeline *)

Pairs == {<<id, repo>> : id \in {"CVE-1", "GHSA-2"}, repo \in {"a/b", "c/d"}}

\* the pull requests of the host opened for the pair
PrsFor(hosted, pair) ==
    Cardinality({i \in DOMAIN hosted :
                    /\ hosted[i].repo = pair[2]
                    /\ hosted[i].head = "security/" \o ToLowerCase(pair[1])})

\* C4 as stated: whatever scans, triage runs, compactions and manual
\* updates have run, the host holds at most one pull request opened for
\* any (id, repo).
C4_AtMostOnePr == \A pair \in Pairs : PrsFor(prs, pair) <= 1

\* C4: a step opens at most one pull request for a pair, opens it only when
\* the pair's entry is stored as pending, and leaves the entry stored and
\* no longer pending; a further pull request for the pair needs the entry
\* to have become pending again (a manual update to pending, or a scan
\* after compact removed the entry).
C4_OnePrPerPendingEntry ==
    [][\A pair \in Pairs :
          /\ PrsFor(prs', pair) <= PrsFor(prs, pair) + 1
          /\ PrsFor(prs', pair) > PrsFor(prs, pair)
                 => /\ \E e \in Stored(file, pair[1], pair[2]) : e.status = "pending"
                    /\ \E e \in Stored(file', pair[1], pair[2]) : e.status # "pending"
                    /\ \A e \in Stored(file', pair[1], pair[2]) : e.status # "pending"]_vars

\* a second pull request for a pair, with the entry recorded as pr_opened
C4_Witness ==
    \E pair \in Pairs :
        /\ PrsFor(prs, pair) = 2
        /\ \E e \in Stored(file, pair[1], pair[2]) :
               e.status = "pr_opened" /\ e.prNumber = 2

-----------------------------------------------------------------------------
(* Properties of execute *)

Executed == exOut # NoCall

ActingPlan(i) == exIn.plans[i].action # "skip"

\* the i-th plan executed on its own against the same host
Alone(i) == executeOne(exIn.plans[i], exIn.hosts[i], exIn.dryRun, 1)

\* execute makes, for the i-th plan, the call that the host fails
MeetsFailure(i) ==
    LET failing == exIn.hosts[i].throws
    IN  \E k \in DOMAIN Alone(i).calls :
            \/ Alone(i).calls[k].call = failing
            \/ Alone(i).calls[k].call = "createPullRequest" /\ failing = "addLabels"

RECURSIVE CallsUpTo(_)
CallsUpTo(n) == IF n = 0 THEN <<>> ELSE CallsUpTo(n - 1) \o Alone(n).calls

\* C13: execute returns one result per plan, the i-th for the i-th plan; a
\* plan for which a call of the code host fails gets an error result with
\* the message of the failure; and every plan, whatever happened to the
\* plans before it, is processed as it is on its own: same action in its
\* result, same calls made for it.
C13_PerPlanFailure ==
    Executed =>
        /\ Len(exOut.results) = Len(exIn.plans)
        /\ \A i \in DOMAIN exIn.plans :
               /\ exOut.results[i].cveId = exIn.plans[i].entry.id
               /\ exOut.results[i].repo = exIn.plans[i].entry.repo
               /\ exOut.results[i].action = Alone(i).result.action
               /\ MeetsFailure(i)
                      => /\ exOut.results[i].action = "error"
                         /\ exOut.results[i].reason = exIn.hosts[i].throws \o " failed"
        /\ exOut.calls = CallsUpTo(Len(exIn.plans))

\* the host refused the branch of the first plan, and the second plan got
\* its pull request
C13_Witness ==
    /\ Executed
    /\ Len(exIn.plans) = 2
    /\ exIn.hosts[1].throws = "createBranch"
    /\ exOut.results[1].action = "error"
    /\ exOut.results[1].reason = "createBranch failed"
    /\ exOut.results[2].action = "pr_opened"
    /\ Len(exOut.prs) = 1

\* C14 as stated: for every acting plan executed without dryRun whose
\* default branch was resolved and whose branch was created, execute calls
\* createPullRequest from that branch against the default branch, whether
\* the manifest patch succeeded, failed or does not exist.
C14_AlwaysAttemptsPr ==
    Executed /\ ~exIn.dryRun =>
        \A i \in DOMAIN exIn.plans :
            ActingPlan(i) /\ exIn.hosts[i].throws \notin {"getDefaultBranch", "createBranch"}
                => \E k \in DOMAIN exOut.calls :
                       /\ exOut.calls[k].call = "createPullRequest"
                       /\ exOut.calls[k].repo = exIn.plans[i].entry.repo
                       /\ exOut.calls[k].head = "security/" \o ToLowerCase(exIn.plans[i].entry.id)
                       /\ exOut.calls[k].base = exIn.hosts[i].defaultBranch

\* C15 as stated: every pull request execute opened is from a branch to
\* which execute committed a manifest change before it asked for the pull
\* request.
C15_EveryPrHasCommit ==
    Executed =>
        \A p \in DOMAIN exOut.prs :
            \E k, c \in DOMAIN exOut.calls :
                /\ c < k
                /\ exOut.calls[c].call = "commitFiles"
                /\ exOut.calls[c].repo = exOut.prs[p].repo
                /\ exOut.calls[c].branch = exOut.prs[p].head
                /\ exOut.calls[k].call = "createPullRequest"
                /\ exOut.calls[k].repo = exOut.prs[p].repo
                /\ exOut.calls[k].head = exOut.prs[p].head

DryRunReasons == {"[DRY RUN] Would open PR", "[DRY RUN] Would open draft PR"}

\* C16: a skip plan gets a skipped result with the plan's reason and no
\* call of the code host is made for it: every call is for the repo of an
\* acting plan, and each acting plan asks for its default branch at most
\* once.  Under dryRun no call is made and no pull request opened at all,
\* and each acting plan gets pr_opened with a dry-run reason and neither
\* prNumber nor prUrl.
C16_SkipAndDryRunCallNothing ==
    Executed =>
        /\ \A i \in DOMAIN exIn.plans :
               ~ActingPlan(i)
                   => /\ exOut.results[i].action = "skipped"
                      /\ exOut.results[i].reason = exIn.plans[i].reason
        /\ \A k \in DOMAIN exOut.calls :
               \E i \in DOMAIN exIn.plans :
                   ActingPlan(i) /\ exIn.plans[i].entry.repo = exOut.calls[k].repo
        /\ Cardinality({k \in DOMAIN exOut.calls :
                            exOut.calls[k].call = "getDefaultBranch"})
               <= Cardinality({i \in DOMAIN exIn.plans : ActingPlan(i)})
        /\ exIn.dryRun
               => /\ exOut.calls = <<>>
                  /\ exOut.prs = <<>>
                  /\ \A i \in DOMAIN exIn.plans :
                         ActingPlan(i)
                             => /\ exOut.results[i].action = "pr_opened"
                                /\ exOut.results[i].reason \in DryRunReasons
                                /\ DOMAIN exOut.results[i]
                                       = {"cveId", "repo", "action", "reason"}

\* a dry run over a draft plan and a skip plan
C16_Witness ==
    /\ Executed
    /\ exIn.dryRun
    /\ \E i, j \in DOMAIN exIn.plans :
           /\ exIn.plans[i].action = "open_draft"
           /\ exOut.results[i].reason = "[DRY RUN] Would open draft PR"
           /\ exIn.plans[j].action = "skip"
           /\ exOut.results[j].action = "skipped"
    /\ exOut.calls = <<>>

-----------------------------------------------------------------------------
(* Properties of dry runs *)

\* C17: a run of scan or of triage with dry_run, as a tool or as a command,
\* leaves the queue file as it was and calls state.write not at all.
C17_DryRunFrame ==
    [][ret'.op \in {"cve_scan", "scan", "cve_triage", "triage"} /\ ret'.dryRun
           => file' = file /\ ~wrote']_vars

\* a dry scan that found something to enqueue, over a store that holds an
\* entry already
C17_Witness ==
    /\ ret.op \in {"cve_scan", "scan"}
    /\ ret.dryRun
    /\ ret.findings > 0
    /\ file # <<>>
    /\ ~wrote

-----------------------------------------------------------------------------
(* Properties of detect *)

Detected == ret.op = "detect"

Raised == "threw" \in DOMAIN ret.result

\* the advisories the answered queries for the packages of a repo returned
ReturnedFor(repoFull) ==
    {adv \in {AdvisoryCve1, AdvisoryGhsa2, AdvisoryCve3, AdvisoryGhsa4} :
        \E m \in DOMAIN arg.feed[repoFull] :
            /\ arg.feed[repoFull][m] # Null
            /\ \E q \in DOMAIN arg.feed[repoFull][m][1] :
                   /\ arg.feed[repoFull][m][1][q].outcome = "ok"
                   /\ \E n \in DOMAIN arg.feed[repoFull][m][1][q].nodes :
                          arg.feed[repoFull][m][1][q].nodes[n] = adv}

\* C18 as stated: whatever read or query failed, detect returns a result
\* (it does not throw), the result counts every repo it was given, and the
\* packages and repos whose queries were answered are scanned: each of
\* their advisories that passes the threshold is among the findings.
C18_FailuresAreSkipped ==
    Detected =>
        /\ ~Raised
        /\ ret.result.reposScanned = Len(arg.repos)
        /\ \A r \in DOMAIN arg.repos :
               \A adv \in ReturnedFor(arg.repos[r]) :
                   IndexOf(SEVERITY_ORDER, normalizeSeverity(<<adv.severity>>))
                           <= IndexOf(SEVERITY_ORDER, arg.severityThreshold)
                       => \E f \in DOMAIN ret.result.findings :
                              /\ ret.result.findings[f].id = OrElse(adv.cveId, adv.ghsaId)
                              /\ ret.result.findings[f].repo = arg.repos[r]

\* the place of a severity on the scale, most severe first
SeverityRank(sev) ==
    CASE sev = "CRITICAL" -> 1
      [] sev = "HIGH" -> 2
      [] sev = "MEDIUM" -> 3
      [] sev = "LOW" -> 4
      [] sev = "NONE" -> 5
      [] sev = "UNKNOWN" -> 6

RECURSIVE SumOver(_, _)
SumOver(f, S) ==
    IF S = {} THEN 0
    ELSE LET x == CHOOSE y \in S : TRUE IN f[x] + SumOver(f, S \ {x})

\* C19: in every result of detect no two findings have the same id and
\* repo, every finding is pending, every finding's severity is on the scale
\* and at least as severe as the threshold, and the counts of bySeverity
\* add up to the number of findings.
C19_DetectResult ==
    Detected /\ ~Raised =>
        LET findings == ret.result.findings
        IN  /\ \A i, j \in DOMAIN findings :
                   findings[i].id = findings[j].id /\ findings[i].repo = findings[j].repo
                       => i = j
            /\ \A i \in DOMAIN findings :
                   /\ findings[i].status = "pending"
                   /\ findings[i].severity \in Severities
                   /\ SeverityRank(findings[i].severity)
                          <= SeverityRank(arg.severityThreshold)
            /\ SumOver(ret.result.bySeverity, DOMAIN ret.result.bySeverity)
                   = Len(findings)

\* a repo scanned twice, the same two advisories returned each time, and an
\* advisory below the threshold among the answers
C19_Witness ==
    /\ Detected
    /\ ~Raised
    /\ arg.repos = <<"a/b", "a/b">>
    /\ AdvisoryGhsa4 \in ReturnedFor("a/b")
    /\ arg.severityThreshold = "HIGH"
    /\ Len(ret.result.findings) = 2

-----------------------------------------------------------------------------
(* Properties of meetsThreshold *)

\* C20: on the six-value scale meetsThreshold(s, t) is true exactly when s
\* is at least as severe as t; it is reflexive, transitive and total.
C20_MeetsThresholdIsTheOrder ==
    ret.op = "meetsThreshold" =>
        /\ ret.st = (SeverityRank(arg[1]) <= SeverityRank(arg[2]))
        /\ ret.ss
        /\ ret.st /\ ret.tu => ret.su
        /\ ret.st \/ ret.ts

\* NONE against UNKNOWN, both ways
C20_Witness ==
    /\ ret.op = "meetsThreshold"
    /\ arg[1] = "NONE"
    /\ arg[2] = "UNKNOWN"
    /\ ret.st
    /\ ~ret.ts

-----------------------------------------------------------------------------
(* Properties of the queue file format *)

-----------------------------------------------------------------------------
(* Properties of list and pending *)

\* C22 as stated: pending returns every entry of the store whose status is
\* pending, whatever its severity, and no entry with another status.
C22_PendingReturnsAllPending ==
    ret.op = "pending" =>
        {ret.entries[i] : i \in DOMAIN ret.entries}
            = {e \in Entries(file) : e.status = "pending"}

\* the entries of the store that pass the filters of the call
Matching ==
    LET status == IF Has(arg, "status") THEN arg.status ELSE "pending"
        severityMin == IF Has(arg, "severityMin") THEN arg.severityMin ELSE "LOW"
    IN  {e \in Entries(file) :
            /\ status = "all" \/ e.status = status
            /\ Has(arg, "repo") => e.repo = arg.repo
            /\ SeverityRank(e.severity) <= SeverityRank(severityMin)}

\* C27: list returns only entries that pass the status, repo and severity
\* filters, none twice, most severe first and within a severity by
\* descending score (null as 0), at most limit of them, the first of the
\* matching ones; total is the number of matching entries.
C27_ListFilters ==
    ret.op = "list" =>
        LET limit == IF Has(arg, "limit") THEN arg.limit ELSE 50
        IN  /\ \A i \in DOMAIN ret.entries : ret.entries[i] \in Matching
            /\ \A i, j \in DOMAIN ret.entries : ret.entries[i] = ret.entries[j] => i = j
            /\ \A i, j \in DOMAIN ret.entries :
                   i < j => AtLeastAsSevere(ret.entries[i], ret.entries[j])
            /\ \A e \in Matching :
                   (\A i \in DOMAIN ret.entries : ret.entries[i] # e)
                       => \A i \in DOMAIN ret.entries : AtLeastAsSevere(ret.entries[i], e)
            /\ Len(ret.entries) <= limit
            /\ Len(ret.entries) = Min(limit, ret.total)
            /\ ret.total = Cardinality(Matching)

\* a list of one repo cut to one entry out of two that match
C27_Witness ==
    /\ ret.op = "list"
    /\ Has(arg, "repo")
    /\ Has(arg, "limit")
    /\ ret.total = 2
    /\ Len(ret.entries) = 1
    /\ Len(file) = 3

-----------------------------------------------------------------------------
(* Properties of the stored entries *)

\* C23 as stated: in every store that enqueue, update and compact lead to,
\* an entry whose status is pending has no prNumber, no prUrl, no
\* processedAt and no skipReason.
C23_PendingHasNoOutcome ==
    \A e \in Entries(file) :
        e.status = "pending"
            => DOMAIN e \cap {"prNumber", "prUrl", "processedAt", "skipReason"} = {}

ReadStep == ret = NoCall /\ ret'.op \in {"list", "pending", "stats"}

-----------------------------------------------------------------------------
(* Claims about a triage run and the store *)

\* the status update writes for a result of execute
StatusOfResult(r) ==
    IF r.action = "pr_opened" THEN "pr_opened"
    ELSE IF r.action = "error" THEN "error" ELSE "skipped"

\* C25: when a triage run stops during execute, every entry whose plan
\* execute had not reached is still stored as it was, pending, and the next
\* triage run reads it among its pending entries.
C25_StoppedRunLeavesPending ==
    [][/\ ret'.op = "stopped" =>
            \A i \in DOMAIN ret'.left :
                ret'.left[i] \in Entries(file') /\ ret'.left[i].status = "pending"
       /\ ret.op = "stopped" /\ ret'.op = "started" =>
            \A i \in DOMAIN ret.left :
                \E j \in DOMAIN ret'.input : ret'.input[j] = ret.left[i]]_vars

\* a run starts after one that stopped partway: the stopped run had opened
\* a pull request and had left an entry unprocessed
C25_Witness ==
    /\ ret.op = "started"
    /\ Len(ret.left) >= 1
    /\ Len(prs) >= 1
    /\ \A i \in DOMAIN ret.left : \E j \in DOMAIN ret.input : ret.input[j] = ret.left[i]

\* the step on which a run that is not a dry run completes
CompletesRun ==
    arg.op = "cve_triage" /\ ~arg.dryRun /\ arg' = NoRun /\ ret'.op = "completed"

\* C29: when a triage run that is not a dry run completes, every entry of
\* its pending input is stored with the status of its result (pr_opened,
\* skipped or error) and a processedAt, none of them is still pending, and
\* the stored entries outside its input are as they were.
C29_CompletedRunResolvesInput ==
    [][CompletesRun =>
          /\ \A i \in DOMAIN arg.input :
                \E s \in Entries(file'), j \in DOMAIN arg.results :
                    /\ SamePair(s, arg.input[i])
                    /\ arg.results[j].cveId = s.id /\ arg.results[j].repo = s.repo
                    /\ s.status = StatusOfResult(arg.results[j])
                    /\ s.status # "pending"
                    /\ Has(s, "processedAt")
          /\ \A s \in Entries(file) :
                (\A i \in DOMAIN arg.input : ~SamePair(s, arg.input[i]))
                    => s \in Entries(file')]_vars

-----------------------------------------------------------------------------
(* Claims about the plans triage returns *)

IsPending(e) == e.status = "pending"

\* C26: triage returns one plan for each input entry that is pending and
\* none for an entry of another status; the plans are in order of severity,
\* most severe first, and within one severity of descending score, a null
\* score counting as 0; the list it was given and its entries are as they
\* were.
C26_OnePlanPerPendingInOrder ==
    [][tpc = "call" /\ tpc' = "done" =>
          LET given == SelectSeq(inEntries, IsPending)
          IN  /\ inEntries' = inEntries
              /\ Len(outPlans') = Len(given)
              /\ \A i \in DOMAIN given :
                    Cardinality({j \in DOMAIN outPlans' :
                                    outPlans'[j].entry = given[i]}) = 1
              /\ \A j \in DOMAIN outPlans' :
                    /\ IsPending(outPlans'[j].entry)
                    /\ \E i \in DOMAIN inEntries : inEntries[i] = outPlans'[j].entry
              /\ \A j, k \in DOMAIN outPlans' :
                    j < k => AtLeastAsSevere(outPlans'[j].entry, outPlans'[k].entry)]_vars

\* triage was given an entry that is not pending and, ahead of a scored
\* entry, one of the same severity with a null score, which it planned last
C26_Witness ==
    /\ tpc = "done"
    /\ \E i \in DOMAIN inEntries : ~IsPending(inEntries[i])
    /\ \E a, b \in DOMAIN inEntries, j, k \in DOMAIN outPlans :
           /\ a < b /\ j < k
           /\ outPlans[k].entry = inEntries[a]
           /\ outPlans[j].entry = inEntries[b]
           /\ inEntries[a].severity = inEntries[b].severity
           /\ inEntries[a].cvssScore = Null
           /\ ScoreOrZero(inEntries[b]) > 0

-----------------------------------------------------------------------------
(* Claims about normalizeSeverity *)

Scale5 == {"CRITICAL", "HIGH", "MEDIUM", "LOW", "NONE"}

\* the upper-cased text of a severity that is one of the five of the scale
\* below UNKNOWN, in any case
OnScale(s) == s # Null /\ ToUpperCase(s[1]) \in Scale5

\* C28: normalizeSeverity returns, for every input, one of the six values
\* of the scale: the upper-cased input when that is CRITICAL, HIGH, MEDIUM,
\* LOW or NONE, and UNKNOWN for every other input, a missing one included;
\* normalising its result returns the result.
C28_NormalizeSeverity ==
    ret.op = "normalizeSeverity" =>
        \A i \in DOMAIN arg :
            /\ ret.out[i] \in Severities
            /\ OnScale(arg[i]) => ret.out[i] = ToUpperCase(arg[i][1])
            /\ ~OnScale(arg[i]) => ret.out[i] = "UNKNOWN"
            /\ ret.again[i] = ret.out[i]

\* a lower-case severity of the scale, and with it a missing one or the
\* advisory database's MODERATE
C28_Witness ==
    /\ ret.op = "normalizeSeverity"
    /\ Len(arg) = 2
    /\ arg[1] = <<"high">> /\ ret.out[1] = "HIGH"
    /\ arg[2] \in {Null, <<"MODERATE">>} /\ ret.out[2] = "UNKNOWN"

-----------------------------------------------------------------------------
(* Claims about the order of the calls execute makes *)

\* the place of a call in getDefaultBranch, createBranch, getFileContent,
\* commitFiles, createPullRequest
CallRank(call) ==
    CASE call = "getDefaultBranch" -> 1
      [] call = "createBranch" -> 2
      [] call = "getFileContent" -> 3
      [] call = "commitFiles" -> 4
      [] call = "createPullRequest" -> 5

\* the acting plans, in the order execute takes them
ActingPlans == SelectSeq([i \in DOMAIN exIn.plans |-> i], ActingPlan)

\* where in the calls execute made a getDefaultBranch stands
BranchLookups ==
    SelectSeq([k \in DOMAIN exOut.calls |-> k],
              LAMBDA k : exOut.calls[k].call = "getDefaultBranch")

\* the calls from the n-th getDefaultBranch up to the next one
CallsOfLookup(n) ==
    SubSeq(exOut.calls, BranchLookups[n],
           IF n < Len(BranchLookups) THEN BranchLookups[n + 1] - 1
           ELSE Len(exOut.calls))

\* the calls seg, made on the host for the acting plan i, are in order and
\* carry what the claim says
InOrderFor(seg, i) ==
    LET e == exIn.plans[i].entry
        host == exIn.hosts[i]
        branch == "security/" \o ToLowerCase(e.id)
    IN  /\ \A a, b \in DOMAIN seg : a < b => CallRank(seg[a].call) < CallRank(seg[b].call)
        /\ \A a \in DOMAIN seg : seg[a].repo = e.repo
        /\ Len(seg) >= 2 =>
               /\ seg[2] = [call |-> "createBranch", repo |-> e.repo,
                            branch |-> branch, fromBranch |-> host.defaultBranch]
               /\ host.throws # "getDefaultBranch"
        /\ Len(seg) >= 3 => host.throws # "createBranch"
        /\ \A a \in DOMAIN seg :
               /\ seg[a].call = "commitFiles" =>
                      /\ seg[a].branch = branch
                      /\ \E r \in 1..(a - 1) : seg[r].call = "getFileContent"
                      /\ host.manifest # Null
                      /\ seg[a].content # host.manifest[1]
               /\ seg[a].call = "createPullRequest" =>
                      /\ seg[a].head = branch
                      /\ seg[a].base = host.defaultBranch
                      /\ \E b \in 1..(a - 1) : seg[b].call = "createBranch"

\* C30: without dryRun the calls execute makes for an acting plan are, in
\* this order, getDefaultBranch, createBranch, getFileContent (not always),
\* commitFiles (not always) and createPullRequest; createPullRequest is
\* called only after createBranch succeeded for the plan, commitFiles only
\* with content that differs from the manifest read, and the pull request
\* is asked from security/<lower-cased id> against the default branch that
\* was resolved.
C30_CallOrder ==
    Executed /\ ~exIn.dryRun =>
        /\ Len(BranchLookups) = Len(ActingPlans)
        /\ exOut.calls # <<>> => BranchLookups[1] = 1
        /\ \A n \in DOMAIN ActingPlans : InOrderFor(CallsOfLookup(n), ActingPlans[n])

\* one plan for which all five calls were made, the commit among them, and
\* one whose branch the host refused, for which no pull request was asked
C30_Witness ==
    /\ Executed /\ ~exIn.dryRun
    /\ Len(ActingPlans) = 2
    /\ Len(CallsOfLookup(1)) = 5
    /\ exIn.hosts[ActingPlans[2]].throws = "createBranch"
    /\ Len(CallsOfLookup(2)) = 2

-----------------------------------------------------------------------------
(* Claims about what compact writes and returns *)

\* C31: compact writes the queue file only when it removed an entry; it
\* returns the number of entries before and after, removed = before - after,
\* and counts by status that add up to removed; on a queue file that is
\* missing or empty it writes nothing and returns zeros.
C31_CompactWritesWhenRemoved ==
    [][CompactStep =>
          /\ wrote' = (ret'.removed > 0)
          /\ ~wrote' => file' = file
          /\ ret'.before = Len(file)
          /\ ret'.after = Len(file')
          /\ ret'.removed = ret'.before - ret'.after
          /\ SumOver(ret'.byStatus, DOMAIN ret'.byStatus) = ret'.removed
          /\ file = <<>> =>
                 /\ ~wrote'
                 /\ ret'.before = 0 /\ ret'.after = 0 /\ ret'.removed = 0
                 /\ DOMAIN ret'.byStatus = {}]_<<ret.op, wrote, file>>

\* compact has just removed two entries of two statuses and written the
\* rest back
C31_Witness ==
    /\ ret.op = "compact"
    /\ wrote
    /\ ret.removed = 2
    /\ Cardinality(DOMAIN ret.byStatus) = 2

-----------------------------------------------------------------------------
(* Claims about the entries a run skips for the cap *)

\* the plan was skipped by the run in arg for the cap alone: its entry meets
\* the threshold and has a known patched version
SkippedForCapOnly(plan) ==
    /\ plan.action = "skip"
    /\ plan.reason = capReason(arg.policy)
    /\ meetsThreshold(plan.entry.severity, arg.policy.autoPrThreshold)
    /\ ~noPatchedVersion(plan.entry)

\* C32 as stated: an entry that a triage run which is not a dry run skips
\* only because the cap was reached is still pending when the run has
\* completed (and so is planned again by the next run).
C32_CapSkippedStaysPending ==
    [][CompletesRun =>
          \A j \in DOMAIN arg.plans :
              SkippedForCapOnly(arg.plans[j])
                  => \E s \in Entries(file') :
                         SamePair(s, arg.plans[j].entry) /\ s.status = "pending"]_vars

-----------------------------------------------------------------------------
(* Claims about a run that follows an interrupted one *)

\* the call asks the host for the branch, or for the pull request, of the
\* entry with this id and repo
Remediates(call, pair) ==
    /\ call.repo = pair.repo
    /\ \/ call.call = "createBranch"
           /\ call.branch = "security/" \o ToLowerCase(pair.id)
       \/ call.call = "createPullRequest"
           /\ call.head = "security/" \o ToLowerCase(pair.id)

\* C33 as stated: when a triage run was interrupted after execute had
\* opened a pull request for an entry, the run after it asks the host
\* neither for the branch nor for the pull request of that entry again.
C33_NoSecondAttempt ==
    arg.op = "cve_triage" =>
        \A k \in DOMAIN arg.calls : \A pair \in arg.opened :
            ~Remediates(arg.calls[k], pair)

-----------------------------------------------------------------------------
(* Claims about error results and the pull requests on the host *)

\* C34 as stated: when execute records an error result for a plan, there is
\* no pull request of that plan on the code host; a failure to attach the
\* labels does not make an error result of an opened pull request.
C34_ErrorMeansNoPr ==
    Executed =>
        \A i \in DOMAIN exOut.results :
            exOut.results[i].action = "error"
                => \A p \in DOMAIN exOut.prs :
                       ~(/\ exOut.prs[p].repo = exIn.plans[i].entry.repo
                         /\ exOut.prs[p].head
                                = "security/" \o ToLowerCase(exIn.plans[i].entry.id))

-----------------------------------------------------------------------------
(* Claims about draftThreshold *)

\* C35: two policies that differ in draftThreshold alone give the same
\* plans for the same entries, and an acting plan is open_pr when the
\* severity of its entry is CRITICAL and open_draft when it is not.
C35_DraftThresholdUnused ==
    tpc = "done" /\ ret.op = "triage" =>
        /\ outPlans = ret.plans
        /\ \A j \in DOMAIN outPlans :
               IsActing(outPlans[j]) =>
                   (outPlans[j].action = "open_pr"
                        <=> outPlans[j].entry.severity = "CRITICAL")

\* the two policies differ, and triage planned a draft for an entry that
\* is below one draftThreshold and not below the other, beside a confirmed
\* pull request
C35_Witness ==
    /\ tpc = "done" /\ ret.op = "triage"
    /\ arg # inPolicy.draftThreshold
    /\ \E j, k \in DOMAIN outPlans :
           /\ outPlans[j].action = "open_pr"
           /\ outPlans[k].action = "open_draft"
           /\ meetsThreshold(outPlans[k].entry.severity, inPolicy.draftThreshold)
                  # meetsThreshold(outPlans[k].entry.severity, arg)

-----------------------------------------------------------------------------
(* Claims about the two cve_triage handlers *)

\* C36 as stated: for the same queue file, policy and results of execute
\* the MCP server's cve_triage and the app's cve_triage hand the same
\* updates to the store, also when one id is pending in two repos.
C36_HandlersAgree ==
    arg.op = "cve_triage" /\ ~arg.dryRun /\ Len(arg.results) = Len(arg.plans) =>
        updatesOf(arg.results, arg.plans, "server")
            = updatesOf(arg.results, arg.plans, "app")

-----------------------------------------------------------------------------
(* Claims about the order of acting plans and cap skips *)

\* C37: in the plans triage returns every acting plan stands before every
\* plan skipped for the cap, and the entry of the acting plan is at least
\* as severe (at equal severity: scored at least as high) as the entry of
\* the skipped one.
C37_ActingBeforeCapSkips ==
    tpc = "done" =>
        \A j, k \in DOMAIN outPlans :
            IsActing(outPlans[j]) /\ CapSkipped(outPlans[k])
                => /\ j < k
                   /\ AtLeastAsSevere(outPlans[j].entry, outPlans[k].entry)

\* triage was given a less severe entry ahead of a more severe one, acted
\* on the more severe one and skipped the other for the cap
C37_Witness ==
    /\ tpc = "done"
    /\ \E a, b \in DOMAIN inEntries, j, k \in DOMAIN outPlans :
           /\ a < b
           /\ outPlans[k].entry = inEntries[a] /\ CapSkipped(outPlans[k])
           /\ outPlans[j].entry = inEntries[b] /\ IsActing(outPlans[j])
           /\ inEntries[a].severity # inEntries[b].severity

-----------------------------------------------------------------------------
(* Claims about processedAt *)

\* C38: in every queue file reached from an empty one through scans that
\* enqueue what detect found, triage runs, manual updates and compactions,
\* every entry whose status is not pending has a processedAt (which is what
\* compact then measures its retention from).
C38_ResolvedHasProcessedAt ==
    \A e \in Entries(file) :
        e.status # "pending" =>
            Has(e, "processedAt") /\ resolutionTime(e) = e.processedAt

\* an entry resolved on a later day than it was detected, beside one that
\* is still pending
C38_Witness ==
    /\ \E e \in Entries(file) :
           e.status # "pending" /\ Has(e, "processedAt") /\ e.processedAt > e.detectedAt
    /\ \E e \in Entries(file) : e.status = "pending"

-----------------------------------------------------------------------------
(* Claims about severities that are not on the scale *)

\* C39 as stated: triage gives an acting plan only to an entry whose
\* severity is one of the six values of the scale and at least as severe as
\* autoPrThreshold; a pending entry of the queue file whose severity is not
\* on the scale gets no acting plan.
C39_ActingOnlyOnScale ==
    tpc = "done" =>
        \A j \in DOMAIN outPlans :
            IsActing(outPlans[j]) =>
                /\ outPlans[j].entry.severity \in Severities
                /\ SeverityRank(outPlans[j].entry.severity)
                       <= SeverityRank(inPolicy.autoPrThreshold)

====
